---------------------------- MODULE Spec2Model ----------------------------
(***************************************************************************)
(* Template source resolution of pkg/util/gitutil and pkg/workspace:       *)
(* ParseGitRepoURL, ParseGitCheckoutOptionsSubDirectory (with the          *)
(* reference listing it sorts) and RetrieveTemplate.                       *)
(*                                                                         *)
(* Go strings are sequences of one-character strings, so that Split, Join, *)
(* HasPrefix, TrimPrefix, TrimSuffix and len are computed, not assumed.    *)
(***************************************************************************)
EXTENDS Integers, Sequences, FiniteSets, TLC

(***************************************************************************)
(* String literals of the source.                                          *)
(***************************************************************************)
sSlash == <<"/">>
sHTTPS == <<"h","t","t","p","s">>
sHTTP == <<"h","t","t","p">>
sHTTPSUpper == <<"H","T","T","P","S">>
sSchemeSep == <<":","/","/">>
sDotGit == <<".","g","i","t">>
sTree == <<"t","r","e","e">>
sDot == <<".">>
sDotDot == <<".",".">>
sOriginSlash == <<"o","r","i","g","i","n","/">>
sRefsHeads == <<"r","e","f","s","/","h","e","a","d","s","/">>
sRefsTags == <<"r","e","f","s","/","t","a","g","s","/">>
sRefsRemotes == <<"r","e","f","s","/","r","e","m","o","t","e","s","/">>
sHEAD == <<"H","E","A","D">>
\* plumbing.Master
Master == <<"r","e","f","s","/","h","e","a","d","s","/","m","a","s","t","e","r">>

(***************************************************************************)
(* Names used by the inputs (those of git_test.go).                        *)
(***************************************************************************)
sHost == <<"f","a","k","e","g","i","t","h","o","s","t",".","c","o","m">>
sHost2 == <<"g","i","t",".","i","o">>
sOwner == <<"f","a","k","e","o","w","n","e","r">>
sOwner2 == <<"p","u","l","u","m","i">>
sRepo == <<"f","a","k","e","r","e","p","o">>
sRepo2 == <<"t","e","m","p","l","a","t","e","s">>
sMy == <<"m","y">>
sMyUpper == <<"M","y">>
sContent == <<"c","o","n","t","e","n","t">>
sConten == <<"c","o","n","t","e","n">>
sFoo == <<"f","o","o">>
sSHA == <<"2","b","a","6","9","2","1","f","3","1","6","3","4","9","3","8","0","9","b","c","b","b","0","e","c","7","2","8","3","a","0","4","4","6","0","4","8","0","7","6">>
sSHAUpper == <<"2","B","A","6","9","2","1","F","3","1","6","3","4","9","3","8","0","9","B","C","B","B","0","E","C","7","2","8","3","A","0","4","4","6","0","4","8","0","7","6">>
sZeroSHA == <<"0","0","0","0","0","0","0","0","0","0","0","0","0","0","0","0","0","0","0","0","0","0","0","0","0","0","0","0","0","0","0","0","0","0","0","0","0","0","0","0">>
\* 39 hexadecimal characters: one short of a commit id.
sShortSHA == <<"2","b","a","6","9","2","1","f","3","1","6","3","4","9","3","8","0","9","b","c","b","b","0","e","c","7","2","8","3","a","0","4","4","6","0","4","8","0","7">>

(***************************************************************************)
(* The strings package.                                                    *)
(***************************************************************************)
HasPrefix(s, prefix) ==
    /\ Len(s) >= Len(prefix)
    /\ SubSeq(s, 1, Len(prefix)) = prefix

HasSuffix(s, suffix) ==
    /\ Len(s) >= Len(suffix)
    /\ SubSeq(s, Len(s) - Len(suffix) + 1, Len(s)) = suffix

TrimPrefix(s, prefix) ==
    IF HasPrefix(s, prefix) THEN SubSeq(s, Len(prefix) + 1, Len(s)) ELSE s

TrimSuffix(s, suffix) ==
    IF HasSuffix(s, suffix) THEN SubSeq(s, 1, Len(s) - Len(suffix)) ELSE s

\* The position of the first "/" of s at or after from, 0 when there is none.
RECURSIVE IndexSlash(_, _)
IndexSlash(s, from) ==
    IF from > Len(s) THEN 0
    ELSE IF s[from] = "/" THEN from
    ELSE IndexSlash(s, from + 1)

\* strings.Split(s, "/"): Split("") is one empty string.
RECURSIVE Split(_)
Split(s) ==
    LET i == IndexSlash(s, 1) IN
    IF i = 0 THEN <<s>>
    ELSE <<SubSeq(s, 1, i - 1)>> \o Split(SubSeq(s, i + 1, Len(s)))

\* strings.Join(elems, "/")
RECURSIVE Join(_)
Join(elems) ==
    IF Len(elems) = 0 THEN <<>>
    ELSE IF Len(elems) = 1 THEN elems[1]
    ELSE elems[1] \o sSlash \o Join(Tail(elems))

\* strings.ToLower
UpperLetters == <<"A","B","C","D","E","F","G","H","I","J","K","L","M",
                  "N","O","P","Q","R","S","T","U","V","W","X","Y","Z">>
LowerLetters == <<"a","b","c","d","e","f","g","h","i","j","k","l","m",
                  "n","o","p","q","r","s","t","u","v","w","x","y","z">>
LowerOf(c) ==
    IF \E k \in 1..Len(UpperLetters) : UpperLetters[k] = c
    THEN LowerLetters[CHOOSE k \in 1..Len(UpperLetters) : UpperLetters[k] = c]
    ELSE c
ToLower(s) == [i \in 1..Len(s) |-> LowerOf(s[i])]

(***************************************************************************)
(* url.Parse, for raw URLs of the shape [scheme] "://" host path: the      *)
(* scheme is what precedes the first ":", in lower case, and an empty one  *)
(* is an error; the host runs to the next "/", and the path is the rest.   *)
(***************************************************************************)
RECURSIVE IndexColon(_, _)
IndexColon(s, from) ==
    IF from > Len(s) THEN 0
    ELSE IF s[from] = ":" THEN from
    ELSE IndexColon(s, from + 1)

urlParse(rawurl) ==
    LET c == IndexColon(rawurl, 1) IN
    IF c = 1 THEN [err |-> "missing protocol scheme", Scheme |-> <<>>, Host |-> <<>>, Path |-> <<>>]
    ELSE LET rest == SubSeq(rawurl, c + 3, Len(rawurl))
             p == IndexSlash(rest, 1)
         IN [err |-> "nil",
             Scheme |-> ToLower(SubSeq(rawurl, 1, c - 1)),
             Host |-> IF p = 0 THEN rest ELSE SubSeq(rest, 1, p - 1),
             Path |-> IF p = 0 THEN <<>> ELSE SubSeq(rest, p, Len(rest))]

(***************************************************************************)
(* ParseGitRepoURL.  The result is the pair (url, err); err is "nil" for   *)
(* Go's nil error.                                                         *)
(***************************************************************************)
\* Line 153 with the comparison against "http" as well.
SchemeAlsoInsecure(scheme) == scheme \in {sHTTPS, sHTTP}

\* Line 153: u.Scheme != "https" is the error.
SchemeAccepted(scheme) == scheme = sHTTPS

\* Lines 172-174 with the suffix appended unconditionally.
AlwaysAppendDotGit(repo) == repo \o sDotGit

\* Lines 172-174: repo gets ".git" unless it ends with it.
WithDotGit(repo) == IF ~HasSuffix(repo, sDotGit) THEN repo \o sDotGit ELSE repo

ParseGitRepoURL(rawurl) ==
    LET u == urlParse(rawurl) IN
    IF u.err # "nil" THEN [url |-> <<>>, err |-> u.err]
    ELSE IF ~SchemeAccepted(u.Scheme) THEN [url |-> <<>>, err |-> "invalid URL scheme"]
    ELSE LET paths == Split(u.Path) IN
         IF Len(paths) < 3 THEN [url |-> <<>>, err |-> "invalid Git URL"]
         ELSE IF paths[2] = <<>> THEN [url |-> <<>>, err |-> "invalid Git URL; no owner"]
         ELSE IF paths[3] = <<>> THEN [url |-> <<>>, err |-> "invalid Git URL; no repository"]
         ELSE [url |-> u.Scheme \o sSchemeSep \o u.Host \o sSlash \o paths[2]
                        \o sSlash \o WithDotGit(paths[3]),
               err |-> "nil"]

(***************************************************************************)
(* Hashes and reference names (go-git's plumbing package).                 *)
(***************************************************************************)
\* The number of hexadecimal digits of a commit id ({40} of gitSHARegex).
HashHexLen == 40

LowerHex == <<"0","1","2","3","4","5","6","7","8","9","a","b","c","d","e","f">>
UpperHex == <<"0","1","2","3","4","5","6","7","8","9","A","B","C","D","E","F">>
HexChars == {LowerHex[i] : i \in 1..16} \cup {UpperHex[i] : i \in 1..16}

\* The value of a hexadecimal digit.
HexVal(c) == (CHOOSE i \in 1..16 : LowerHex[i] = c \/ UpperHex[i] = c) - 1

\* gitSHARegex accepting lower-case digits only.
LowerCaseSHAOnly(s) ==
    /\ Len(s) = HashHexLen
    /\ \A i \in 1..Len(s) : s[i] \in {LowerHex[k] : k \in 1..16}

\* gitSHARegex.MatchString(s): ^[0-9a-fA-F]{40}$
gitSHARegexMatch(s) ==
    /\ Len(s) = HashHexLen
    /\ \A i \in 1..Len(s) : s[i] \in HexChars

\* plumbing.NewHash(s) for a string of hexadecimal digits: the decoded
\* value, one entry per digit.
NewHash(s) == [i \in 1..HashHexLen |-> HexVal(s[i])]

\* plumbing.ZeroHash, the Hash of a CheckoutOptions that sets none.
ZeroHash == [i \in 1..HashHexLen |-> 0]

HashIsZero(h) == h = ZeroHash

\* ReferenceName.Short(): the name without refs/heads/, refs/tags/ or
\* refs/remotes/; any other name (HEAD) as it is.
Short(ref) ==
    IF HasPrefix(ref, sRefsHeads) THEN TrimPrefix(ref, sRefsHeads)
    ELSE IF HasPrefix(ref, sRefsTags) THEN TrimPrefix(ref, sRefsTags)
    ELSE IF HasPrefix(ref, sRefsRemotes) THEN TrimPrefix(ref, sRefsRemotes)
    ELSE ref

(***************************************************************************)
(* listGitReferencesByShortNameLength: the references as the repository    *)
(* enumerates them, sorted by sort.Sort(byShortNameLengthDesc(results)).   *)
(* sort.Sort is an insertion sort for the list sizes of this model (Go     *)
(* sorts slices of fewer than seven elements by insertion alone).          *)
(***************************************************************************)
\* Less with the comparison turned around: ascending lengths.
LessAscending(r, i, j) == Len(Short(r[i])) < Len(Short(r[j]))

\* byShortNameLengthDesc.Less(i, j)
Less(r, i, j) == Len(Short(r[j])) < Len(Short(r[i]))

\* byShortNameLengthDesc.Swap(i, j)
Swap(r, i, j) == [r EXCEPT ![i] = r[j], ![j] = r[i]]

RECURSIVE insertionInner(_, _)
insertionInner(data, j) ==
    IF j > 1 /\ Less(data, j, j - 1)
    THEN insertionInner(Swap(data, j, j - 1), j - 1)
    ELSE data

RECURSIVE insertionSort(_, _)
insertionSort(data, i) ==
    IF i > Len(data) THEN data
    ELSE insertionSort(insertionInner(data, i), i + 1)

listGitReferencesByShortNameLength(enumerated) == insertionSort(enumerated, 2)

(***************************************************************************)
(* ParseGitCheckoutOptionsSubDirectory(rawurl, repo).  repo is given by    *)
(* the order in which it enumerates its references.  The result is (opts,  *)
(* subDirectory, err) and, beside it, whether repo.References() was called *)
(* and the sorted list the loop went through.                              *)
(***************************************************************************)
\* A nil *git.CheckoutOptions.
NilOptions == [nil |-> TRUE, Branch |-> <<>>, Hash |-> ZeroHash, Force |-> FALSE]

\* &git.CheckoutOptions{Branch: b}
BranchOptions(b) == [nil |-> FALSE, Branch |-> b, Hash |-> ZeroHash, Force |-> FALSE]

\* &git.CheckoutOptions{Hash: h}
HashOptions(h) == [nil |-> FALSE, Branch |-> <<>>, Hash |-> h, Force |-> FALSE]

Failure(err, listed, refs) ==
    [opts |-> NilOptions, subDirectory |-> <<>>, err |-> err, listed |-> listed, refs |-> refs]

Success(opts, subDirectory, listed, refs) ==
    [opts |-> opts, subDirectory |-> subDirectory, err |-> "nil", listed |-> listed, refs |-> refs]

\* Line 201 slicing away the owner only.
SliceAwayOwner(paths) == SubSeq(paths, 3, Len(paths))

\* Line 201: paths[3:]
SliceAwayOwnerRepo(paths) == SubSeq(paths, 4, Len(paths))

\* Line 205 testing for ".." alone.
OnlyDotDot(path) == path = sDotDot

\* Line 205: path == "." || path == ".."
IsDotOrDotDot(path) == path = sDot \/ path = sDotDot

\* Line 229: strings.TrimPrefix(ref.Short(), "origin/")
shortNameWithoutOrigin(ref) == TrimPrefix(Short(ref), sOriginSlash)

\* Lines 229-231 comparing without regard to letter case.
RefMatchesFoldingCase(path, ref) ==
    HasPrefix(ToLower(path), ToLower(shortNameWithoutOrigin(ref) \o sSlash))

\* Lines 229-231: strings.HasPrefix(path, shortNameWithoutOrigin + "/")
RefMatches(path, ref) == HasPrefix(path, shortNameWithoutOrigin(ref) \o sSlash)

\* Lines 228-235: the index of the first reference of refs, from i on, that
\* matches path; 0 when the loop ends without one.
RECURSIVE FirstMatch(_, _, _)
FirstMatch(refs, path, i) ==
    IF i > Len(refs) THEN 0
    ELSE IF RefMatches(path, refs[i]) THEN i
    ELSE FirstMatch(refs, path, i + 1)

\* Line 239 falling back to master with the rest of the path.
FallBackToMaster(paths, listed, refs) ==
    Success(BranchOptions(Master), Join(Tail(paths)), listed, refs)

\* Line 239: return nil, "", errors.New("invalid Git URL")
NoRefForTree(paths, listed, refs) == Failure("invalid Git URL", listed, refs)

\* Lines 210-240: paths[0] == "tree".
TreeTarget(paths, enumerated) ==
    IF Len(paths) >= 2
    THEN IF gitSHARegexMatch(paths[2])
         THEN Success(HashOptions(NewHash(paths[2])),
                      Join(SubSeq(paths, 3, Len(paths))), FALSE, <<>>)
         ELSE LET refs == listGitReferencesByShortNameLength(enumerated)
                  path == Join(Tail(paths)) \o sSlash
                  m == FirstMatch(refs, path, 1)
              IN IF m # 0
                 THEN LET prefix == shortNameWithoutOrigin(refs[m]) \o sSlash
                          subDir == TrimPrefix(path, prefix)
                      IN Success(BranchOptions(refs[m]), TrimSuffix(subDir, sSlash),
                                 TRUE, refs)
                 ELSE NoRefForTree(paths, TRUE, refs)
    ELSE NoRefForTree(paths, FALSE, <<>>)

ParseGitCheckoutOptionsSubDirectory(rawurl, enumerated) ==
    LET u == urlParse(rawurl) IN
    IF u.err # "nil" THEN Failure(u.err, FALSE, <<>>)
    ELSE LET all == Split(TrimSuffix(u.Path, sSlash)) IN
         IF Len(all) < 3 THEN Failure("invalid Git URL", FALSE, <<>>)
         ELSE IF Len(all) = 3 THEN Success(BranchOptions(Master), <<>>, FALSE, <<>>)
         ELSE LET paths == SliceAwayOwnerRepo(all) IN
              IF \E i \in 1..Len(paths) : IsDotOrDotDot(paths[i])
              THEN Failure("invalid Git URL", FALSE, <<>>)
              ELSE IF paths[1] = sTree THEN TreeTarget(paths, enumerated)
              ELSE Success(BranchOptions(Master), Join(paths), FALSE, <<>>)

(***************************************************************************)
(* GitCloneOrPull(url, path), given what go-git answers: cloneErr from     *)
(* PlainClone, openErr from PlainOpen, worktreeErr from repo.Worktree()    *)
(* and pullErr from w.Pull.  ops are the git operations attempted at path. *)
(***************************************************************************)
\* Line 108: Depth: 1
ShallowDepth == 1

\* One git operation at path, with the options it was given.
Op(name, depth, force) == [op |-> name, Depth |-> depth, Force |-> force]

\* Lines 106-110: git.PlainClone(path, false, &git.CloneOptions{URL: url, Depth: 1})
PlainClone == Op("clone", ShallowDepth, FALSE)

\* Line 114: git.PlainOpen(path)
PlainOpen == Op("open", 0, FALSE)

\* Lines 124-128: w.Pull(&git.PullOptions{Depth: 1, Force: true})
Pull == Op("pull", ShallowDepth, TRUE)

\* Line 128 taking every answer of Pull but nil for a failure.
PullFailedUnlessNil(pullErr) == pullErr # "nil"

\* Line 128: err != nil && err != git.NoErrAlreadyUpToDate
PullFailed(pullErr) == pullErr # "nil" /\ pullErr # "NoErrAlreadyUpToDate"

GitCloneOrPull(cloneErr, openErr, worktreeErr, pullErr) ==
    IF cloneErr # "nil"
    THEN IF cloneErr = "ErrRepositoryAlreadyExists"
         THEN IF openErr # "nil"
              THEN [repo |-> FALSE, err |-> openErr, ops |-> <<PlainClone, PlainOpen>>]
              ELSE IF worktreeErr # "nil"
              THEN [repo |-> FALSE, err |-> worktreeErr, ops |-> <<PlainClone, PlainOpen>>]
              ELSE IF PullFailed(pullErr)
              THEN [repo |-> FALSE, err |-> pullErr, ops |-> <<PlainClone, PlainOpen, Pull>>]
              ELSE [repo |-> TRUE, err |-> "nil", ops |-> <<PlainClone, PlainOpen, Pull>>]
         ELSE [repo |-> FALSE, err |-> cloneErr, ops |-> <<PlainClone>>]
    ELSE [repo |-> TRUE, err |-> "nil", ops |-> <<PlainClone>>]

\* go-git's answers to one call of GitCloneOrPull.
Answers(cloneErr, openErr, worktreeErr, pullErr) ==
    [clone |-> cloneErr, open |-> openErr, worktree |-> worktreeErr, pull |-> pullErr]

\* Before go-git was asked anything.
NoAnswers == Answers("", "", "", "")

CloneErrs == {"nil", "ErrRepositoryAlreadyExists", "clone failed"}
OpenErrs == {"nil", "open failed"}
WorktreeErrs == {"nil", "ErrIsBareRepository"}
PullErrs == {"nil", "NoErrAlreadyUpToDate", "pull failed"}
CheckoutErrs == {"nil", "reference not found"}
\* What os.Stat finds at fullPath.
StatResults == {"dir", "file", "ErrNotExist"}

\* The destination path RetrieveTemplate is given.
sDest == <<"/","t","m","p","/","t">>

\* filepath.Join(path, filepath.FromSlash(subDirectory))
FullPath(path, subDirectory) ==
    IF subDirectory = <<>> THEN path ELSE path \o sSlash \o subDirectory

(***************************************************************************)
(* localStack.MergeTags(tags): stack.go, lines 72-86.  A Go map is nil or  *)
(* holds a function from its keys to their values.                         *)
(***************************************************************************)
\* A nil map[apitype.StackTagName]string.
NilMap == [nil |-> TRUE, m |-> <<>>]

\* Line 78: make(map[apitype.StackTagName]string)
MakeMap == [nil |-> FALSE, m |-> <<>>]

\* A map holding the function f.
MapOf(f) == [nil |-> FALSE, m |-> f]

\* len(tags)
MapLen(map) == Cardinality(DOMAIN map.m)

\* Line 84 leaving a key that is there as it is.
AssignIfAbsent(f, k, v) ==
    [x \in DOMAIN f \cup {k} |-> IF x \in DOMAIN f THEN f[x] ELSE v]

\* Line 84: s.tags[k] = v
Assign(f, k, v) == [x \in DOMAIN f \cup {k} |-> IF x = k THEN v ELSE f[x]]

\* Lines 83-85: for k, v := range tags { s.tags[k] = v }, over the keys
\* not yet ranged over.
RECURSIVE RangeAssign(_, _, _)
RangeAssign(f, from, keys) ==
    IF keys = {} THEN f
    ELSE LET k == CHOOSE x \in keys : TRUE
         IN RangeAssign(Assign(f, k, from.m[k]), from, keys \ {k})

\* s.tags after s.MergeTags(t).
MergeTags(sTags, t) ==
    IF MapLen(t) = 0 THEN sTags
    ELSE LET made == IF sTags.nil THEN MakeMap ELSE sTags
         IN MapOf(RangeAssign(made.m, t, DOMAIN t.m))

\* The tags of the stacks.
TagNames == {"pulumi:project", "pulumi:runtime", "gitHub:repo"}
TagValues == {"nodejs", "python"}
TagMaps ==
    {NilMap} \cup {MapOf(f) : f \in UNION {[K -> TagValues] : K \in SUBSET TagNames}}

(***************************************************************************)
(* Template files: templates.go, lines 239-303 and 367-450.  A directory   *)
(* tree is a function from the paths under its root (lists of names) to    *)
(* "file" or "dir"; the roots are the template's source directory and the  *)
(* destination directory.                                                  *)
(***************************************************************************)
\* Line 42
legacyPulumiTemplateManifestFile == ".pulumi.template.yaml"

\* The file names, in the order ioutil.ReadDir gives them (sorted).
FileNames == <<legacyPulumiTemplateManifestFile, "index.ts", "src">>

\* The paths under a root.
FilePaths ==
    { <<legacyPulumiTemplateManifestFile>>, <<"index.ts">>, <<"src">>,
      <<"src", legacyPulumiTemplateManifestFile>>, <<"src", "index.ts">> }

\* filepath.Dir and filepath.Base of a path under the root.
Dir(path) == SubSeq(path, 1, Len(path) - 1)
Base(path) == path[Len(path)]

\* The directory trees: what is in a directory is under a directory.
IsTree(t) == \A q \in DOMAIN t : Len(q) > 1 => (Dir(q) \in DOMAIN t /\ t[Dir(q)] = "dir")
Trees == {t \in UNION {[Q -> {"file", "dir"}] : Q \in SUBSET FilePaths} : IsTree(t)}

\* os.Stat(path) under the root of tree: "file", "dir", or an error.  A
\* file is "file" with what it held before the copy and "written" with the
\* bytes of the template.
Stat(tree, path) ==
    IF path \notin DOMAIN tree THEN "ErrNotExist"
    ELSE IF tree[path] = "dir" THEN "dir" ELSE "file"

\* Lines 393-397: name == legacyPulumiTemplateManifestFile
IsLegacyManifest(name) == name = legacyPulumiTemplateManifestFile

\* walkFiles(sourceDir, destDir, actionFn), lines 369-407: the entries of
\* the source tree for which actionFn is called, in the order of the calls,
\* from the i-th name of the directory dir on, when no call gives an error.
RECURSIVE walkFiles(_, _, _)
walkFiles(source, dir, i) ==
    IF i > Len(FileNames) THEN <<>>
    ELSE LET name == FileNames[i]
             path == dir \o <<name>>
             rest == walkFiles(source, dir, i + 1)
         IN IF path \notin DOMAIN source THEN rest
            ELSE IF source[path] = "dir"
                 THEN <<path>> \o walkFiles(source, path, 1) \o rest
            ELSE IF IsLegacyManifest(name) THEN rest
            ELSE <<path>> \o rest

\* Lines 248-252 without the test of destInfo.IsDir().
ExistsAtAll(dest, path) == Stat(dest, path) # "ErrNotExist"

\* Lines 248-252: statErr == nil && !destInfo.IsDir()
ExistsAsNonDirectory(dest, path) == Stat(dest, path) = "file"

\* Lines 247-253: the names appended to existing, over the calls of actionFn.
RECURSIVE Existing(_, _)
Existing(dest, walked) ==
    IF walked = <<>> THEN <<>>
    ELSE (IF ExistsAsNonDirectory(dest, Head(walked)) THEN <<Base(Head(walked))>> ELSE <<>>)
         \o Existing(dest, Tail(walked))

\* One os.Stat, os.Mkdir or os.OpenFile at a path under the destination.
FsOp(name, path) == [op |-> name, path |-> path]

\* The source directory of a template: the tree it holds, or no directory.
SourceDir(tree) == [isThere |-> TRUE, tree |-> tree]
NoSourceDir == [isThere |-> FALSE, tree |-> <<>>]

\* template.CopyTemplateFilesDryRun(destDir), lines 241-263: the error, the
\* names the error lists, the operations at the destination, and the
\* destination afterwards.  ioutil.ReadDir fails when the template has no
\* source directory.
CopyTemplateFilesDryRun(source, dest) ==
    IF ~source.isThere
    THEN [err |-> "ErrNotExist", existing |-> <<>>, ops |-> <<>>, dest |-> dest]
    ELSE LET walked == walkFiles(source.tree, <<>>, 1)
             existing == Existing(dest, walked)
         IN [err |-> IF Len(existing) > 0 THEN "existing files" ELSE "nil",
             existing |-> existing,
             ops |-> [j \in 1..Len(walked) |-> FsOp("Stat", walked[j])],
             dest |-> dest]

\* Whether a path under the destination can be created: the directory it
\* is to be in is the destination itself or a directory under it.
ParentIsDir(dest, path) == Len(path) = 1 \/ Stat(dest, Dir(path)) = "dir"

\* os.Mkdir(dest, 0700), line 277: the error, and the destination afterwards.
Mkdir(dest, path) ==
    IF ~ParentIsDir(dest, path) THEN [err |-> "ErrNotExist", dest |-> dest]
    ELSE IF path \in DOMAIN dest THEN [err |-> "ErrExist", dest |-> dest]
    ELSE [err |-> "nil", dest |-> [q \in DOMAIN dest \cup {path} |->
                                     IF q = path THEN "dir" ELSE dest[q]]]

\* os.OpenFile(filename, flag, 0600) and f.Write(bytes), lines 442-449, for
\* flag O_WRONLY|O_CREATE with O_TRUNC (truncate) or with O_EXCL.
OpenAndWrite(dest, path, truncate) ==
    IF ~ParentIsDir(dest, path) THEN [err |-> "ErrNotExist", dest |-> dest]
    ELSE IF path \in DOMAIN dest /\ dest[path] = "dir"
         THEN [err |-> IF truncate THEN "is a directory" ELSE "ErrExist", dest |-> dest]
    ELSE IF path \in DOMAIN dest /\ ~truncate THEN [err |-> "ErrExist", dest |-> dest]
    ELSE [err |-> "nil", dest |-> [q \in DOMAIN dest \cup {path} |->
                                     IF q = path THEN "written" ELSE dest[q]]]

\* Lines 435-440 with O_TRUNC whatever overwrite is.
writeAllBytesTruncating(dest, path, overwrite) == OpenAndWrite(dest, path, TRUE)

\* writeAllBytes(filename, bytes, overwrite), lines 434-450: O_TRUNC if
\* overwrite, else O_EXCL.
writeAllBytes(dest, path, overwrite) == OpenAndWrite(dest, path, overwrite)

\* The flag os.OpenFile is given, beside O_WRONLY|O_CREATE.
OpenFlag(overwrite) == IF overwrite THEN "OpenFile O_TRUNC" ELSE "OpenFile O_EXCL"

\* Lines 275-300: the action of CopyTemplateFiles for one entry of the
\* source tree, and lines 384-403: walkFiles returning the first error.
RECURSIVE CopyWalk(_, _, _, _, _)
CopyWalk(source, dest, walked, force, ops) ==
    IF walked = <<>>
    THEN [err |-> "nil", existing |-> <<>>, ops |-> ops, dest |-> dest]
    ELSE LET path == Head(walked)
             isDir == source[path] = "dir"
             r == IF isDir THEN Mkdir(dest, path) ELSE writeAllBytes(dest, path, force)
             done == Append(ops, FsOp(IF isDir THEN "Mkdir" ELSE OpenFlag(force), path))
         IN IF r.err = "nil" THEN CopyWalk(source, r.dest, Tail(walked), force, done)
            ELSE IF ~isDir /\ r.err = "ErrExist"
                 THEN [err |-> "existing files", existing |-> <<Base(path)>>,
                       ops |-> done, dest |-> dest]
            ELSE [err |-> r.err, existing |-> <<>>, ops |-> done, dest |-> dest]

\* template.CopyTemplateFiles(destDir, force, projectName,
\* projectDescription), lines 266-303.
CopyTemplateFiles(source, dest, force) ==
    IF ~source.isThere
    THEN [err |-> "ErrNotExist", existing |-> <<>>, ops |-> <<>>, dest |-> dest]
    ELSE CopyWalk(source.tree, dest, walkFiles(source.tree, <<>>, 1), force, <<>>)

(***************************************************************************)
(* The new command: chooseTemplate, saveConfig and the Run function of     *)
(* newNewCmd.  What the command calls is listed, call by call, with the    *)
(* error each call answered.                                               *)
(***************************************************************************)
\* One call the command made, and the error it answered.
Called(name, err) == [op |-> name, err |-> err]

\* errors.Wrap(err, message) of github.com/pkg/errors: nil for a nil err.
Wrap(err, message) == IF err = "nil" THEN "nil" ELSE message \o ": " \o err

\* Line 464: chooseTemplateErr, without the advice that follows it.
chooseTemplateErr == "no template selected"

\* The names of the templates in the local cache.
sAws == <<"a","w","s">>
sAzure == <<"a","z","u","r","e">>

\* What workspace.ListLocalTemplates() may answer: the templates, or an
\* error of ioutil.ReadDir or LoadLocalTemplate.
Listing(templates, err) == [templates |-> templates, err |-> err]
LocalListings ==
    { Listing(<<>>, "nil"), Listing(<<sAws>>, "nil"), Listing(<<sAws, sAzure>>, "nil"),
      Listing(<<>>, "ErrNotExist") }

\* What workspace.ListTemplates() may answer: the error of
\* CloneOrUpdatePulumiTemplates, else what ListLocalTemplates answers.
RemoteListings == LocalListings \cup {Listing(<<>>, "clone failed")}

\* What survey.AskOne may answer: the option chosen, or an error (^C).
Asked(option, err) == [option |-> option, err |-> err]

\* chooseTemplate(offline, opts), lines 463-510, given what
\* cmdutil.Interactive(), the listing of the templates and survey.AskOne
\* answer: the name and error returned and the calls made.  The local
\* listing of lines 477-481 only adds advice to the message of the error.
chooseTemplate(offline, interactive, listing, asked) ==
    IF ~interactive
    THEN [name |-> <<>>, err |-> chooseTemplateErr, ops |-> <<>>]
    ELSE IF ~offline /\ listing.err # "nil"
    THEN [name |-> <<>>,
          err |-> Wrap(listing.err, "could not fetch list of remote templates"),
          ops |-> << Called("ListTemplates", listing.err),
                     Called("ListLocalTemplates", "nil") >>]
    ELSE IF offline /\ (listing.err # "nil" \/ Len(listing.templates) = 0)
    THEN [name |-> <<>>,
          err |-> Wrap(listing.err, chooseTemplateErr),
          ops |-> <<Called("ListLocalTemplates", listing.err)>>]
    ELSE LET listed == Called(IF offline THEN "ListLocalTemplates" ELSE "ListTemplates",
                              "nil")
         IN IF asked.err # "nil"
            THEN [name |-> <<>>, err |-> chooseTemplateErr,
                  ops |-> <<listed, Called("AskOne", asked.err)>>]
            ELSE [name |-> asked.option, err |-> "nil",
                  ops |-> <<listed, Called("AskOne", "nil")>>]

\* What survey.AskOne may answer, given the options.
AskOneAnswers(templates) ==
    {Asked(<<>>, "interrupt")} \cup {Asked(templates[j], "nil") : j \in 1..Len(templates)}

\* config.NewValue(v): a plain value, not tagged as secret.
NewValue(v) == [value |-> v, secure |-> FALSE]

\* One entry of template.Config: ProjectTemplateConfigValue.
ProjectTemplateConfigValue(default, secret) == [Default |-> default, Secret |-> secret]

\* What promptForValue(yes, prompt, defaultValue, ...) may return, lines
\* 516-561: the default when yes is set or the line read is blank, the
\* value read, or the error of reading the console.
Prompted(value, err) == [value |-> value, err |-> err]
promptForValue(yes, defaultValue) ==
    IF yes THEN {Prompted(defaultValue, "nil")}
    ELSE { Prompted(defaultValue, "nil"), Prompted("typed", "nil"),
           Prompted("", "read failed") }

\* Lines 315-326: the config maps c the loop over the sorted keys may
\* build, one prompt for each key, or the error of a prompt.
ConfigPrompts(config, yes) ==
    LET keys == DOMAIN config.m
        byKey == [k \in keys |-> promptForValue(yes, config.m[k].Default)]
        choices == {ch \in [keys -> UNION {byKey[k] : k \in keys}] :
                        \A k \in keys : ch[k] \in byKey[k]}
    IN { IF \E k \in keys : ch[k].err # "nil"
         THEN [err |-> "read failed", c |-> NilMap]
         ELSE [err |-> "nil", c |-> MapOf([k \in keys |-> NewValue(ch[k].value)])] :
         ch \in choices }

\* saveConfig(stackName, c), lines 419-430, for a stack whose project stack
\* has no config yet: the error, and ps.Config as saved.
saveConfig(c, detectErr, saveErr) ==
    IF detectErr # "nil" THEN [err |-> detectErr, saved |-> NilMap]
    ELSE IF saveErr # "nil" THEN [err |-> saveErr, saved |-> NilMap]
    ELSE [err |-> "nil", saved |-> MapOf(RangeAssign(<<>>, c, DOMAIN c.m))]

(***************************************************************************)
(* The Run function of newNewCmd, lines 123-372, step by step.  A step     *)
(* takes the command as far as it has come (the error, the calls made, the *)
(* template selected, the destination directory) and gives every way it    *)
(* may go on, over the answers of what it calls.                           *)
(***************************************************************************)
Started(dest) ==
    [err |-> "nil", ops |-> <<>>, templateName |-> <<>>, dest |-> dest,
     existing |-> <<>>, fsOps |-> <<>>, saved |-> NilMap]

\* The call of what answered e, and the command returns the error returned.
Fails(st, what, e, returned) ==
    [st EXCEPT !.ops = Append(st.ops, Called(what, e)), !.err = returned]

\* The call of what succeeded.
Goes(st, what) == [st EXCEPT !.ops = Append(st.ops, Called(what, "nil"))]

\* Every step is taken only when no step before it returned an error.
Then(sts, step(_)) == UNION {IF st.err # "nil" THEN {st} ELSE step(st) : st \in sts}

\* Lines 126-129: the name given is validated.
ValidateName(in, st) ==
    IF in.flags.name = "" THEN {st}
    ELSE {Goes(st, "IsValidProjectName"),
          Fails(st, "IsValidProjectName", "not valid", "not a valid project name")}

\* Lines 144-159: the directory given is made and gone to.
EnsureDir(in, st) ==
    IF ~in.flags.dir THEN {st}
    ELSE {Goes(st, "MkdirAll"),
          Fails(st, "MkdirAll", "mkdir failed", Wrap("mkdir failed", "creating the directory"))}

\* Lines 163-169: the backend, unless only generating.
GetBackend(in, st) ==
    IF in.flags.generateOnly THEN {st}
    ELSE {Goes(st, "currentBackend"), Fails(st, "currentBackend", "login failed", "login failed")}

\* Lines 172-179: the template named by the argument, or chosen.
SelectTemplate(in, st) ==
    IF Len(in.args) > 0 THEN {[st EXCEPT !.templateName = ToLower(in.args[1])]}
    ELSE UNION {
           { LET r == chooseTemplate(in.flags.offline, in.interactive, listing, asked)
             IN [st EXCEPT !.ops = st.ops \o r.ops, !.err = r.err, !.templateName = r.name] :
             asked \in AskOneAnswers(listing.templates) } :
           listing \in (IF in.flags.offline THEN LocalListings ELSE RemoteListings) }

\* Lines 183-231: the template is fetched and loaded.
LoadSelected(in, st) ==
    IF HasPrefix(st.templateName, sHTTPS \o sSchemeSep)
    THEN IF in.flags.offline
         THEN {[st EXCEPT !.err = "cannot use template offline"]}
         ELSE {Fails(st, "RetrieveTemplate", e, e) : e \in {"invalid Git URL", "clone failed"}}
              \cup {Fails(Goes(st, "RetrieveTemplate"), "LoadTemplate", "load failed",
                          "load failed"),
                    Goes(Goes(st, "RetrieveTemplate"), "LoadTemplate")}
    ELSE LET cloned == IF in.flags.offline THEN {st}
                       ELSE {Goes(st, "CloneOrUpdatePulumiTemplates"),
                             Fails(st, "CloneOrUpdatePulumiTemplates", "clone failed",
                                   Wrap("clone failed", "cloning templates"))}
             load(c) ==
                IF ~in.sourceDir.isThere
                THEN {Fails(c, "LoadLocalTemplate", "ErrNotExist",
                            Wrap("ErrNotExist", "template not found"))}
                ELSE {Fails(c, "LoadLocalTemplate", "load failed",
                            Wrap("load failed", "template not found")),
                      Goes(c, "LoadLocalTemplate")}
         IN Then(cloned, load)

\* Lines 236-239 and 272-275: os.IsNotExist(err) tells a missing template.
NotFoundOr(e) == IF e = "ErrNotExist" THEN Wrap(e, "template not found") ELSE e

\* Lines 234-241 never running the dry run.
DryRunNever(force) == FALSE

\* Line 234: if !force
DryRunWanted(force) == ~force

\* Lines 233-241: the dry run, if files are not forced to be overwritten.
DryRun(in, st) ==
    IF ~DryRunWanted(in.flags.force) THEN {st}
    ELSE LET r == CopyTemplateFilesDryRun(in.sourceDir, st.dest)
             ran == [st EXCEPT !.fsOps = st.fsOps \o r.ops, !.dest = r.dest,
                               !.existing = r.existing]
         IN IF r.err # "nil"
            THEN {Fails(ran, "CopyTemplateFilesDryRun", r.err, NotFoundOr(r.err))}
            ELSE {Goes(ran, "CopyTemplateFilesDryRun")}

\* Lines 252-268: the prompts for the project name, unless given, and for
\* the project description (taken as not given).
PromptNameAndDescription(in, st) ==
    LET named == IF in.flags.name # "" THEN {st}
                 ELSE { IF p.err # "nil" THEN Fails(st, "promptForValue", p.err, p.err)
                        ELSE Goes(st, "promptForValue") :
                        p \in promptForValue(in.flags.yes, "project") }
        describe(n) == { IF p.err # "nil" THEN Fails(n, "promptForValue", p.err, p.err)
                         ELSE Goes(n, "promptForValue") :
                         p \in promptForValue(in.flags.yes, "") }
    IN Then(named, describe)

\* Lines 270-276: the files are copied.
CopyFiles(in, st) ==
    LET r == CopyTemplateFiles(in.sourceDir, st.dest, in.flags.force)
        ran == [st EXCEPT !.fsOps = st.fsOps \o r.ops, !.dest = r.dest,
                          !.existing = r.existing]
    IN IF r.err # "nil"
       THEN {Fails(ran, "CopyTemplateFiles", r.err, NotFoundOr(r.err))}
       ELSE {Goes(ran, "CopyTemplateFiles")}

\* Lines 281-304: the stack, unless only generating.  Without yes a stack
\* that could not be made is asked for again, until one is made or the
\* prompt fails.
InitStackOf(in, st) ==
    IF in.flags.generateOnly THEN {st}
    ELSE {Goes(Goes(st, "promptForValue"), "stackInit")}
         \cup (IF in.flags.yes
               THEN {Fails(Goes(st, "promptForValue"), "stackInit", "stack exists",
                           "stack exists")}
               ELSE {Fails(st, "promptForValue", "read failed", "read failed")})

\* Lines 306-334: the config is asked for and saved, unless only generating.
PromptAndSaveConfig(in, st) ==
    IF in.flags.generateOnly \/ MapLen(in.templateConfig) = 0 THEN {st}
    ELSE UNION {
           IF p.err # "nil" THEN {Fails(st, "promptForValue", p.err, p.err)}
           ELSE { LET r == saveConfig(p.c, detectErr, saveErr)
                  IN IF r.err # "nil"
                     THEN Fails(st, "saveConfig", r.err, Wrap(r.err, "saving config"))
                     ELSE [Goes(st, "saveConfig") EXCEPT !.saved = r.saved] :
                  detectErr \in {"nil", "no project"}, saveErr \in {"nil", "write failed"} } :
           p \in ConfigPrompts(in.templateConfig, in.flags.yes) }

\* Lines 336-344: the dependencies are installed, unless only generating.
InstallDependencies(in, st) ==
    IF in.flags.generateOnly THEN {st}
    ELSE {Goes(st, "installDependencies"),
          Fails(st, "installDependencies", "install failed", "install failed")}

\* The Run function, lines 123-372: every way the command may end.
Run(in) ==
    LET s1 == ValidateName(in, Started(in.destDir))
        s2 == Then(s1, LAMBDA st : EnsureDir(in, st))
        s3 == Then(s2, LAMBDA st : GetBackend(in, st))
        s4 == Then(s3, LAMBDA st : SelectTemplate(in, st))
        s5 == Then(s4, LAMBDA st : LoadSelected(in, st))
        s6 == Then(s5, LAMBDA st : DryRun(in, st))
        s7 == Then(s6, LAMBDA st : PromptNameAndDescription(in, st))
        s8 == Then(s7, LAMBDA st : CopyFiles(in, st))
        s9 == Then(s8, LAMBDA st : InitStackOf(in, st))
        s10 == Then(s9, LAMBDA st : PromptAndSaveConfig(in, st))
    IN Then(s10, LAMBDA st : InstallDependencies(in, st))

(***************************************************************************)
(* The template cache shared by the callers of                             *)
(* CloneOrUpdatePulumiTemplates and GitCloneOrPull: one destination path,  *)
(* and the callers' steps at it.  Nothing in templates.go or git.go takes  *)
(* a lock, so the steps of two callers interleave.  git.PlainClone is two  *)
(* steps, the repository made at the path and the fetch into it.           *)
(***************************************************************************)
pulumiTemplateGitRepository == "https://github.com/pulumi/templates.git"
otherGitRepository == "https://fakegithost.com/fakeowner/fakerepo.git"

\* The callers.
Callers == {"first", "second"}
NoCaller == "none"

\* The destination path: whether the directory exists, whether it holds no
\* repository, one being cloned into or a cloned one, the URL of the
\* repository's remote origin, and who is cloning into it.
PathState(dir, git, origin, by) == [dir |-> dir, git |-> git, origin |-> origin, by |-> by]
NoDirectory == PathState(FALSE, "none", "", NoCaller)
LegacyDirectory == PathState(TRUE, "none", "", NoCaller)
ClonedFrom(origin) == PathState(TRUE, "repo", origin, NoCaller)

\* git.PlainOpen(path), templates.go:63 and git.go:114.
PlainOpenAt(path) == IF path.git = "none" THEN "ErrRepositoryNotExists" ELSE "nil"

\* os.RemoveAll(templateDir), templates.go:68.
RemoveAll(path) == NoDirectory

\* os.MkdirAll(templateDir, 0700), templates.go:90.
MkdirAll(path) == [path EXCEPT !.dir = TRUE]

\* git.PlainClone(path, false, {URL: url, Depth: 1}), git.go:110, as far as
\* the repository made at path: the error, and the path afterwards.
PlainCloneInit(path, url, self) ==
    IF path.git # "none"
    THEN [err |-> "ErrRepositoryAlreadyExists", path |-> path]
    ELSE [err |-> "nil", path |-> PathState(TRUE, "cloning", url, self)]

\* The rest of git.PlainClone: the fetch from url and the checkout, which
\* fail when the repository is no longer the one this caller made.
PlainCloneFetch(path, self) ==
    IF path.git = "cloning" /\ path.by = self
    THEN [err |-> "nil", path |-> [path EXCEPT !.git = "repo", !.by = NoCaller]]
    ELSE [err |-> "clone failed", path |-> path]

\* w.Pull({Depth: 1, Force: true}), git.go:128, which fetches from the
\* remote origin of the repository opened, whatever url the caller gave:
\* the errors it may answer.
PullAt(path) ==
    IF path.git = "repo" THEN {"nil", "NoErrAlreadyUpToDate"}
    ELSE IF path.git = "cloning" THEN {"nil", "pull failed"}
    ELSE {"pull failed"}

\* A caller: the function it called, the url given, where it is, whether it
\* cloned or pulled, the error returned and the origin of the repository
\* returned.
Caller(fn, url, at, took, ret, origin) ==
    [fn |-> fn, url |-> url, at |-> at, took |-> took, ret |-> ret, origin |-> origin]

(***************************************************************************)
(* Update, Refresh and Destroy of a stack with persisted state.            *)
(* stack.go:96-106 hand each of them to backend.UpdateStack, RefreshStack  *)
(* and DestroyStack.  What these do is as sections 4.4, 4.5 and 5 of the   *)
(* specification say: the exclusive lock of the stack is taken, the        *)
(* deployment engine runs, the snapshot that resulted, complete or         *)
(* partial, is saved in place of the persisted one, the lock is released   *)
(* and the engine's error is returned.                                     *)
(***************************************************************************)
\* The operations under way against the one stack.
Operations == {"op1", "op2"}
OperationKinds == {"Update", "Refresh", "Destroy"}
NoHolder == "none"

\* A snapshot: the operation whose engine run produced it ("none" for the
\* one persisted before any), and whether it is partial.
Snapshot(by, partial) == [by |-> by, partial |-> partial]
NoSnapshot == Snapshot("nil", FALSE)
FirstSnapshot == Snapshot("none", FALSE)

\* What the deployment engine may end with for operation o: a complete
\* snapshot, an error and no snapshot, an error and a partial snapshot.
EngineResult(e, snapshot) == [err |-> e, snapshot |-> snapshot]
EngineResults(o) ==
    { EngineResult("nil", Snapshot(o, FALSE)),
      EngineResult("engine failed", NoSnapshot),
      EngineResult("engine failed", Snapshot(o, TRUE)) }

\* Saving only what a run without error produced.
SavedOnSuccessOnly(result) == result.err = "nil"

\* Whatever snapshot resulted is saved, also a partial one.
SavedAfter(result) == result.snapshot # NoSnapshot

\* save(Stack): it fully succeeds, or leaves the persisted state untouched.
SaveErrs == {"nil", "save failed"}
Save(before, snapshot, saveErr) == IF saveErr = "nil" THEN snapshot ELSE before

\* The lock kept by an operation that failed.
HolderKeptOnFailure(o, failed) == IF failed THEN o ELSE NoHolder

\* The lock is released on every exit path.
HolderAfter(o, failed) == NoHolder

\* The error backend.UpdateStack returns, which localStack.Update returns
\* as it is: the engine's, or else that of the save.
Returned(result, saveErr) == IF result.err # "nil" THEN result.err ELSE saveErr

\* An operation: its kind, where it is, the persisted snapshot when it took
\* the lock, what the engine ended with, the error of the save ("" when
\* nothing was saved) and the error returned.
Operation(kind, at, before, result, saveErr, ret) ==
    [kind |-> kind, at |-> at, before |-> before, result |-> result,
     saveErr |-> saveErr, ret |-> ret]
NotStarted(kind) ==
    Operation(kind, "start", NoSnapshot, EngineResult("", NoSnapshot), "", "")

(***************************************************************************)
(* RegisterResource of the ResourceMonitor service, resource.proto:11-35.  *)
(* The service is declared there; what answers it is as sections 3, 4.3    *)
(* and 5 of the specification say: the URN is assigned from the parent,    *)
(* the type and the name, and the registration is accumulated into the     *)
(* snapshot being built, under mutual exclusion, a registration of a URN   *)
(* already there redeclaring that resource.                                *)
(***************************************************************************)
\* The calls of one accumulation session.
Registrations == {"call1", "call2"}

\* RegisterResourceRequest, resource.proto:19-25 (the object left out).
RegisterResourceRequest(type, name, parent, custom) ==
    [type |-> type, name |-> name, parent |-> parent, custom |-> custom]

\* The URN assigned to a resource of a parent, a type and a name.
URN(parent, type, name) ==
    (IF parent = "" THEN "urn:pulumi:stack::project::" ELSE parent \o "$")
    \o type \o "::" \o name

ResourceTypes == {"aws:s3/bucket:Bucket", "my:component:Group"}
ResourceNames == {"a", "b"}
ResourceParents == {"", URN("", "my:component:Group", "parent")}
RegisterResourceRequests ==
    { RegisterResourceRequest(type, name, parent, custom) :
        type \in ResourceTypes, name \in ResourceNames, parent \in ResourceParents,
        custom \in BOOLEAN }

\* The state of a resource in the snapshot.
ResourceState(urn, req) == [urn |-> urn, type |-> req.type, custom |-> req.custom]

\* Where the snapshot has an entry of the URN, 0 if nowhere.
IndexOfURN(snap, urn) ==
    IF \E i \in 1..Len(snap) : snap[i].urn = urn
    THEN CHOOSE i \in 1..Len(snap) : snap[i].urn = urn
    ELSE 0

\* Every registration appended, also one of a URN already there.
AppendedAlways(snap, state) == Append(snap, state)

\* The accumulation of a registration: an entry is appended, or the entry
\* of the same URN is the resource redeclared.
Accumulated(snap, state) ==
    IF IndexOfURN(snap, state.urn) = 0 THEN Append(snap, state)
    ELSE [snap EXCEPT ![IndexOfURN(snap, state.urn)] = state]

\* A call: the request, where it is, and the urn of the response,
\* resource.proto:29-35.
Registration(req, at, urn) == [req |-> req, at |-> at, urn |-> urn]

(***************************************************************************)
(* The inputs.  A raw URL is written from a form: scheme, host, the owner  *)
(* and repo components (depth says how many of them the URL has, git       *)
(* whether repo carries ".git"), an optional tree component, further path  *)
(* segments and an optional trailing "/".                                  *)
(***************************************************************************)
\* The longest list of path segments after owner/repo (and tree).
MaxSegs == 3
\* The largest set of references a repository of the reference family has.
MaxRefs == 3

SeqsUpTo(S, n) == UNION {[1..k -> S] : k \in 0..n}

RECURSIVE Slashed(_)
Slashed(comps) ==
    IF Len(comps) = 0 THEN <<>> ELSE sSlash \o comps[1] \o Slashed(Tail(comps))

Components(f) ==
    (IF f.depth >= 1 THEN <<f.owner>> ELSE <<>>)
    \o (IF f.depth >= 2 THEN <<IF f.git THEN f.repo \o sDotGit ELSE f.repo>> ELSE <<>>)
    \o (IF f.tree THEN <<sTree>> ELSE <<>>)
    \o f.segs

MkRawURL(f) ==
    f.scheme \o sSchemeSep \o f.host \o Slashed(Components(f))
    \o (IF f.slash THEN sSlash ELSE <<>>)

Form(scheme, host, depth, owner, repo, git, tree, segs, slash) ==
    [scheme |-> scheme, host |-> host, depth |-> depth, owner |-> owner, repo |-> repo,
     git |-> git, tree |-> tree, segs |-> segs, slash |-> slash]

Ref(prefix, name) == prefix \o name

\* The references of the clone that git_test.go resolves against.
TestRepoRefs ==
    { sHEAD, Master, Ref(sRefsTags, sMy),
      Ref(sRefsRemotes, sOriginSlash \o sMy \o sSlash \o sContent) }

\* A repository with a branch named like a commit id.
SHANamedRepoRefs ==
    { Ref(sRefsHeads, sSHA), Ref(sRefsHeads, sZeroSHA), Ref(sRefsTags, sMy),
      Ref(sRefsHeads, sMy \o sSlash \o sContent) }

PathRepos == {TestRepoRefs, SHANamedRepoRefs}

\* Path family: every list of segments, with and without tree.
PathSegs == {sMy, sContent, sFoo, sDot, sDotDot, sSHA}
PathForms ==
    { Form(sHTTPS, sHost, 2, sOwner, sRepo, FALSE, tree, segs, slash) :
        tree \in BOOLEAN, segs \in SeqsUpTo(PathSegs, MaxSegs), slash \in BOOLEAN }

\* Hash family: tree, then something that is or nearly is a commit id.
HashSegs == {sSHA, sSHAUpper, sZeroSHA, sShortSHA}
HashTailSegs == {sFoo, sContent, sDotDot}
HashForms ==
    { Form(sHTTPS, sHost, 2, sOwner, sRepo, FALSE, TRUE, <<h>> \o tail, slash) :
        h \in HashSegs, tail \in SeqsUpTo(HashTailSegs, MaxSegs - 1), slash \in BOOLEAN }

\* Reference family: tree, then a ref-path, against every small set of
\* tags, branches and remote-tracking references.
RefPathSegs == {sMy, sMyUpper, sContent, sFoo}
RefUniverse ==
    { Ref(sRefsTags, sMy),
      Ref(sRefsHeads, sMy \o sSlash \o sContent),
      Ref(sRefsRemotes, sOriginSlash \o sMy),
      Ref(sRefsRemotes, sOriginSlash \o sMy \o sSlash \o sContent),
      Ref(sRefsHeads, sMy \o sSlash \o sContent \o sSlash \o sFoo) }
RefRepos == {R \in SUBSET RefUniverse : Cardinality(R) <= MaxRefs}
RefForms ==
    { Form(sHTTPS, sHost, 2, sOwner, sRepo, FALSE, TRUE, segs, slash) :
        segs \in SeqsUpTo(RefPathSegs, MaxSegs), slash \in BOOLEAN }

\* Tie family: a remote-tracking reference and a branch whose short names,
\* origin/my and my/conten, have the same length, and a tag.
TieSegs == {sMy, sConten, sFoo}
TieUniverse ==
    { Ref(sRefsRemotes, sOriginSlash \o sMy),
      Ref(sRefsHeads, sMy \o sSlash \o sConten),
      Ref(sRefsTags, sFoo) }
TieRepos == SUBSET TieUniverse
TieForms ==
    { Form(sHTTPS, sHost, 2, sOwner, sRepo, FALSE, TRUE, segs, slash) :
        segs \in SeqsUpTo(TieSegs, MaxSegs), slash \in BOOLEAN }

\* URL family: schemes, hosts, owners, repos, ".git", and a few paths.
Schemes == {sHTTPS, sHTTPSUpper, sHTTP, <<>>}
Tails ==
    { <<FALSE, <<>>>>, <<FALSE, <<sFoo>>>>, <<FALSE, <<sContent, sFoo>>>>,
      <<FALSE, <<sDotDot>>>>, <<TRUE, <<>>>>, <<TRUE, <<sMy, sFoo>>>>,
      <<TRUE, <<sMyUpper>>>>, <<TRUE, <<sSHA, sContent>>>> }
URLForms ==
    { Form(scheme, host, 2, owner, repo, git, tail[1], tail[2], slash) :
        scheme \in Schemes, host \in {sHost, sHost2}, owner \in {sOwner, sOwner2},
        repo \in {sRepo, sRepo2}, git \in BOOLEAN, tail \in Tails, slash \in BOOLEAN }
    \cup
    { Form(scheme, host, depth, sOwner, sRepo, FALSE, FALSE, <<>>, slash) :
        scheme \in Schemes, host \in {sHost, sHost2}, depth \in {0, 1}, slash \in BOOLEAN }

\* Clone family: the URLs GitCloneOrPull is given.
CloneForms ==
    { Form(sHTTPS, host, 2, sOwner, sRepo, TRUE, FALSE, <<>>, FALSE) :
        host \in {sHost, sHost2} }

Input(call, f, repo) == [call |-> call, form |-> f, repo |-> repo]

Inputs ==
    { Input("ParseGitCheckoutOptionsSubDirectory", f, repo) :
        f \in PathForms \cup HashForms, repo \in PathRepos }
    \cup { Input("ParseGitCheckoutOptionsSubDirectory", f, repo) :
        f \in RefForms, repo \in RefRepos }
    \cup { Input("ParseGitCheckoutOptionsSubDirectory", f, repo) :
        f \in TieForms, repo \in TieRepos }
    \cup { Input("ParseGitCheckoutOptionsSubDirectory", f, TestRepoRefs) : f \in URLForms }
    \cup { Input("ParseGitRepoURL", f, TestRepoRefs) : f \in URLForms }
    \cup { Input("RetrieveTemplate", f, TestRepoRefs) : f \in URLForms }
    \cup { Input("GitCloneOrPull", f, TestRepoRefs) : f \in CloneForms }

\* The orders in which a repository may enumerate its references.
RECURSIVE Enumerations(_)
Enumerations(S) ==
    IF S = {} THEN {<<>>}
    ELSE UNION {{<<x>> \o rest : rest \in Enumerations(S \ {x})} : x \in S}

(***************************************************************************)
(* The state: the call under way, its arguments, and what it returned.     *)
(***************************************************************************)
VARIABLES
    call,          \* the function called
    form,          \* the form rawurl was written from
    rawurl,        \* the rawurl argument
    repoRefs,      \* the references of the repository (the repo argument)
    pc,            \* "start" before the call, "done" after it returned
    url,           \* the repository URL ParseGitRepoURL returned
    opts,          \* the *git.CheckoutOptions returned
    subDirectory,  \* the sub directory returned
    err,           \* the error returned, "nil" for none
    listed,        \* whether repo.References() was called
    refs,          \* the sorted references the matching loop went through
    gitOps,        \* the git operations attempted at the destination path
    fullPath,      \* the path RetrieveTemplate returned
    answers,       \* what go-git answered to GitCloneOrPull
    handle,        \* whether GitCloneOrPull returned a repository, not nil
    found,         \* what os.Stat found at the full path, "" before it is asked
    stackTags,     \* s.tags of the localStack s
    tags,          \* the tags argument of the latest s.MergeTags(tags)
    sourceDir,     \* the source directory of the template
    destBefore,    \* the destination directory before the call
    destDir,       \* the destination directory
    existing,      \* the file names the existing-files error lists
    fsOps,         \* the operations at paths under the destination
    flags,         \* the flags of the new command
    interactive,   \* what cmdutil.Interactive() answers
    args,          \* the arguments of the new command: no or one template
    templateName,  \* the name of the template selected
    templateConfig, \* template.Config of the template
    cmdOps,        \* the calls the command made, with the errors answered
    saved,         \* the config saveConfig saved for the stack
    cachePath,     \* the destination path the callers share
    callers,       \* the callers of CloneOrUpdatePulumiTemplates and GitCloneOrPull
    clobbered,     \* the callers whose clone under way was deleted by another
    lock,          \* the operation holding the exclusive lock of the stack
    persisted,     \* the persisted snapshot of the stack
    operations,    \* the Update, Refresh and Destroy operations against the stack
    snapshot,      \* the snapshot being built from the registrations
    registrations  \* the calls of RegisterResource

vars == <<call, form, rawurl, repoRefs, pc, url, opts, subDirectory, err, listed, refs,
          gitOps, fullPath, answers, handle, found, stackTags, tags, sourceDir,
          destBefore, destDir, existing, fsOps, flags, interactive, args, templateName,
          templateConfig, cmdOps, saved, cachePath, callers, clobbered,
          lock, persisted, operations, snapshot, registrations>>

\* The variables of the gitutil and workspace calls, and those of the stack.
gitVars == <<form, rawurl, repoRefs, url, opts, subDirectory, listed, refs, gitOps,
             fullPath, answers, handle, found>>
stackVars == <<stackTags, tags>>
cacheVars == <<cachePath, callers, clobbered>>
opVars == <<lock, persisted, operations>>
regVars == <<snapshot, registrations>>
otherVars == <<cacheVars, opVars, regVars>>
fileVars == <<sourceDir, destBefore, destDir, existing, fsOps>>
cmdVars == <<flags, interactive, args, templateName, templateConfig, cmdOps, saved>>

\* No URL.
NoForm == Form(<<>>, <<>>, 0, <<>>, <<>>, FALSE, FALSE, <<>>, FALSE)

\* No gitutil or workspace call is under way.
GitAtRest ==
    /\ form = NoForm
    /\ rawurl = <<>>
    /\ repoRefs = {}
    /\ url = <<>>
    /\ opts = NilOptions
    /\ subDirectory = <<>>
    /\ listed = FALSE
    /\ refs = <<>>
    /\ gitOps = <<>>
    /\ fullPath = <<>>
    /\ answers = NoAnswers
    /\ handle = FALSE
    /\ found = ""

\* No caller is at the shared destination path.
CacheAtRest ==
    /\ cachePath = NoDirectory
    /\ callers = [c \in Callers |-> Caller("", "", "rest", "", "", "")]
    /\ clobbered = {}

\* No operation is run against a stack.
OperationsAtRest ==
    /\ lock = NoHolder
    /\ persisted = NoSnapshot
    /\ operations = [o \in Operations |-> Operation("", "rest", NoSnapshot,
                                                     EngineResult("", NoSnapshot), "", "")]

\* No resource is being registered.
RegistrationAtRest ==
    /\ snapshot = <<>>
    /\ registrations = [r \in Registrations |->
                           Registration(RegisterResourceRequest("", "", "", FALSE),
                                        "rest", "")]

OthersAtRest == CacheAtRest /\ OperationsAtRest /\ RegistrationAtRest

\* No stack is under consideration.
StackAtRest ==
    /\ stackTags = NilMap
    /\ tags = NilMap

\* The flags --force, --yes, --offline, --generate-only, --name, and
\* whether --dir is given.
Flags(force, yes, offline, generateOnly, name, dir) ==
    [force |-> force, yes |-> yes, offline |-> offline, generateOnly |-> generateOnly,
     name |-> name, dir |-> dir]

\* No command is running.
CmdAtRest ==
    /\ flags = Flags(FALSE, FALSE, FALSE, FALSE, "", FALSE)
    /\ interactive = FALSE
    /\ args = <<>>
    /\ templateName = <<>>
    /\ templateConfig = NilMap
    /\ cmdOps = <<>>
    /\ saved = NilMap

\* No template is being copied.
FilesAtRest ==
    /\ sourceDir = NoSourceDir
    /\ destBefore = <<>>
    /\ destDir = <<>>
    /\ existing = <<>>
    /\ fsOps = <<>>

\* A template and a destination directory, before the template is copied.
InitFiles ==
    \E source \in {NoSourceDir} \cup {SourceDir(t) : t \in Trees}, dest \in Trees :
        /\ call = "CopyTemplateFilesDryRun"
        /\ pc = "start"
        /\ err = "nil"
        /\ sourceDir = source
        /\ destBefore = dest
        /\ destDir = dest
        /\ existing = <<>>
        /\ fsOps = <<>>
        /\ GitAtRest
        /\ StackAtRest
        /\ CmdAtRest
        /\ OthersAtRest

\* A template and a destination directory, before CopyTemplateFiles is
\* called with force or without: the destination is as it is found then,
\* whatever a dry run saw before.
InitCopy ==
    \E source \in {SourceDir(t) : t \in Trees}, dest \in Trees, force \in BOOLEAN :
        /\ call = "CopyTemplateFiles"
        /\ pc = "start"
        /\ err = "nil"
        /\ sourceDir = source
        /\ destBefore = dest
        /\ destDir = dest
        /\ existing = <<>>
        /\ fsOps = <<>>
        /\ flags = Flags(force, FALSE, FALSE, FALSE, "", FALSE)
        /\ interactive = FALSE
        /\ args = <<>>
        /\ templateName = <<>>
        /\ templateConfig = NilMap
        /\ cmdOps = <<>>
        /\ saved = NilMap
        /\ GitAtRest
        /\ StackAtRest
        /\ OthersAtRest

\* A stack made by newStack with some tags, before any MergeTags.
InitStack ==
    \E t \in TagMaps :
        /\ call = "MergeTags"
        /\ pc = "start"
        /\ err = "nil"
        /\ stackTags = t
        /\ tags = NilMap
        /\ GitAtRest
        /\ FilesAtRest
        /\ CmdAtRest
        /\ OthersAtRest

\* Before chooseTemplate(offline, opts) is called.
InitChoose ==
    \E offline \in BOOLEAN, inter \in BOOLEAN :
        /\ call = "chooseTemplate"
        /\ pc = "start"
        /\ err = "nil"
        /\ flags = Flags(FALSE, FALSE, offline, FALSE, "", FALSE)
        /\ interactive = inter
        /\ args = <<>>
        /\ templateName = <<>>
        /\ templateConfig = NilMap
        /\ cmdOps = <<>>
        /\ saved = NilMap
        /\ GitAtRest
        /\ StackAtRest
        /\ FilesAtRest
        /\ OthersAtRest

\* The templates the command is run on: none in the cache, or one with a
\* legacy manifest, index.ts and a directory src holding index.ts.
CommandSources ==
    { NoSourceDir,
      SourceDir([q \in FilePaths \ {<<"src", legacyPulumiTemplateManifestFile>>} |->
                    IF q = <<"src">> THEN "dir" ELSE "file"]) }

\* The destination directories the command is run in: empty, holding
\* index.ts, holding a directory src, holding a file src.
CommandDests ==
    { <<>>,
      [q \in {<<"index.ts">>} |-> "file"],
      [q \in {<<"src">>} |-> "dir"],
      [q \in {<<"src">>} |-> "file"] }

\* template.Config: none, or a plain key and a secret one.
TemplateConfigs ==
    { NilMap,
      MapOf([k \in {"aws:region", "app:password"} |->
                IF k = "app:password" THEN ProjectTemplateConfigValue("", TRUE)
                ELSE ProjectTemplateConfigValue("us-west-2", FALSE)]) }

\* The template arguments of the command: none, a name, a URL, and the URL
\* of git_test.go:117-123 with the reference HEAD after tree.
CommandArgs ==
    { <<>>, <<sAws>>,
      <<MkRawURL(Form(sHTTPS, sHost, 2, sOwner, sRepo, FALSE, FALSE, <<>>, FALSE))>>,
      <<MkRawURL(Form(sHTTPS, sHost, 2, sOwner, sRepo, FALSE, TRUE, <<sHEAD>>, FALSE))>> }

\* The calls made at the shared path: the function and the url it is given.
CallKinds ==
    { <<"CloneOrUpdatePulumiTemplates", pulumiTemplateGitRepository>>,
      <<"GitCloneOrPull", pulumiTemplateGitRepository>>,
      <<"GitCloneOrPull", otherGitRepository>> }

\* Two callers about to call, at a path that does not exist, that is a
\* directory without a repository, or that holds a clone.
InitCache ==
    \E path \in {NoDirectory, LegacyDirectory, ClonedFrom(pulumiTemplateGitRepository),
                 ClonedFrom(otherGitRepository)},
       kinds \in [Callers -> CallKinds] :
        /\ call = "callers"
        /\ pc = "start"
        /\ err = "nil"
        /\ cachePath = path
        /\ callers = [c \in Callers |->
                        Caller(kinds[c][1], kinds[c][2],
                               IF kinds[c][1] = "GitCloneOrPull" THEN "clone" ELSE "cleanup",
                               "", "", "")]
        /\ clobbered = {}
        /\ GitAtRest
        /\ StackAtRest
        /\ FilesAtRest
        /\ CmdAtRest
        /\ OperationsAtRest
        /\ RegistrationAtRest

\* A stack with a persisted snapshot or none yet, and two operations about
\* to be run against it.
InitOperations ==
    \E kinds \in [Operations -> OperationKinds], first \in {NoSnapshot, FirstSnapshot} :
        /\ call = "operations"
        /\ pc = "start"
        /\ err = "nil"
        /\ lock = NoHolder
        /\ persisted = first
        /\ operations = [o \in Operations |-> NotStarted(kinds[o])]
        /\ GitAtRest
        /\ StackAtRest
        /\ FilesAtRest
        /\ CmdAtRest
        /\ CacheAtRest
        /\ RegistrationAtRest

\* An accumulation session with an empty snapshot, and two calls of
\* RegisterResource about to be made.
InitRegistrations ==
    \E reqs \in [Registrations -> RegisterResourceRequests] :
        /\ call = "registrations"
        /\ pc = "start"
        /\ err = "nil"
        /\ snapshot = <<>>
        /\ registrations = [r \in Registrations |-> Registration(reqs[r], "start", "")]
        /\ GitAtRest
        /\ StackAtRest
        /\ FilesAtRest
        /\ CmdAtRest
        /\ CacheAtRest
        /\ OperationsAtRest

\* Before the new command runs.
InitNew ==
    \E force \in BOOLEAN, yes \in BOOLEAN, offline \in BOOLEAN, generateOnly \in BOOLEAN,
       name \in {"", "project"}, dir \in BOOLEAN, a \in CommandArgs,
       source \in CommandSources, dest \in CommandDests, config \in TemplateConfigs :
        /\ call = "new"
        /\ pc = "start"
        /\ err = "nil"
        /\ flags = Flags(force, yes, offline, generateOnly, name, dir)
        /\ interactive = TRUE
        /\ args = a
        /\ templateName = <<>>
        /\ templateConfig = config
        /\ cmdOps = <<>>
        /\ saved = NilMap
        /\ sourceDir = source
        /\ destBefore = dest
        /\ destDir = dest
        /\ existing = <<>>
        /\ fsOps = <<>>
        /\ GitAtRest
        /\ StackAtRest
        /\ OthersAtRest

InitGit ==
    \E in \in Inputs :
        /\ call = in.call
        /\ form = in.form
        /\ rawurl = MkRawURL(in.form)
        /\ repoRefs = in.repo
        /\ pc = "start"
        /\ url = <<>>
        /\ opts = NilOptions
        /\ subDirectory = <<>>
        /\ err = "nil"
        /\ listed = FALSE
        /\ refs = <<>>
        /\ gitOps = <<>>
        /\ fullPath = <<>>
        /\ answers = NoAnswers
        /\ handle = FALSE
        /\ found = ""
        /\ StackAtRest
        /\ FilesAtRest
        /\ CmdAtRest
        /\ OthersAtRest

Init ==
    InitGit \/ InitStack \/ InitFiles \/ InitCopy \/ InitChoose \/ InitNew \/ InitCache
    \/ InitOperations \/ InitRegistrations

\* What GitCloneOrPull may return, over go-git's answers.
GitCloneOrPullResults ==
    { GitCloneOrPull(cloneErr, openErr, worktreeErr, pullErr) :
        cloneErr \in CloneErrs, openErr \in OpenErrs, worktreeErr \in WorktreeErrs,
        pullErr \in PullErrs }

\* What ParseGitCheckoutOptionsSubDirectory may return for a repository with
\* the references R, over the orders it enumerates them in.
ParseResults(raw, R) ==
    { ParseGitCheckoutOptionsSubDirectory(raw, enumerated) :
        enumerated \in Enumerations(R) }

\* Lines 154-161 without the test of info.IsDir().
CheckoutAndStatAnyKind(checkoutErr, stat) ==
    IF checkoutErr # "nil" THEN checkoutErr
    ELSE IF stat = "ErrNotExist" THEN "ErrNotExist"
    ELSE "nil"

\* Lines 149-161: the error of the forced checkout, else that of the check
\* of fullPath.
CheckoutAndStat(checkoutErr, stat) ==
    IF checkoutErr # "nil" THEN checkoutErr
    ELSE IF stat = "ErrNotExist" THEN "ErrNotExist"
    ELSE IF stat # "dir" THEN "is not a directory"
    ELSE "nil"

\* A direct call of ParseGitRepoURL(rawurl), as in TestParseGitRepoURL.
CallParseGitRepoURL ==
    /\ pc = "start"
    /\ call = "ParseGitRepoURL"
    /\ LET r == ParseGitRepoURL(rawurl) IN
        /\ url' = r.url
        /\ err' = r.err
    /\ pc' = "done"
    /\ UNCHANGED <<call, form, rawurl, repoRefs, opts, subDirectory, listed, refs,
                   gitOps, fullPath, answers, handle, found, stackVars, fileVars, cmdVars, otherVars>>

\* A direct call of ParseGitCheckoutOptionsSubDirectory(rawurl, repo), as in
\* TestParseGitCheckoutOptionsSubDirectory.
CallParseGitCheckoutOptionsSubDirectory ==
    /\ pc = "start"
    /\ call = "ParseGitCheckoutOptionsSubDirectory"
    /\ \E r \in ParseResults(rawurl, repoRefs) :
        /\ opts' = r.opts
        /\ subDirectory' = r.subDirectory
        /\ err' = r.err
        /\ listed' = r.listed
        /\ refs' = r.refs
    /\ pc' = "done"
    /\ UNCHANGED <<call, form, rawurl, repoRefs, url, gitOps, fullPath, answers, handle,
                   found, stackVars, fileVars, cmdVars, otherVars>>

\* A direct call of GitCloneOrPull(url, path): lines 101-137 of git.go.
CallGitCloneOrPull ==
    /\ pc = "start"
    /\ call = "GitCloneOrPull"
    /\ \E cloneErr \in CloneErrs, openErr \in OpenErrs, worktreeErr \in WorktreeErrs,
          pullErr \in PullErrs :
        LET g == GitCloneOrPull(cloneErr, openErr, worktreeErr, pullErr) IN
        /\ answers' = Answers(cloneErr, openErr, worktreeErr, pullErr)
        /\ handle' = g.repo
        /\ err' = g.err
        /\ gitOps' = g.ops
    /\ pc' = "done"
    /\ UNCHANGED <<call, form, rawurl, repoRefs, url, opts, subDirectory, listed, refs,
                   fullPath, found, stackVars, fileVars, cmdVars, otherVars>>

\* Line 150: w.Checkout(opts) with opts.Force = true
Checkout == Op("checkout", 0, TRUE)

\* RetrieveTemplate(rawurl, path): lines 104-164 of templates.go.
RetrieveTemplate ==
    /\ pc = "start"
    /\ call = "RetrieveTemplate"
    /\ LET u == ParseGitRepoURL(rawurl) IN
       IF u.err # "nil"
       THEN /\ err' = u.err
            /\ UNCHANGED <<url, opts, subDirectory, listed, refs, gitOps, fullPath, found, otherVars>>
       ELSE \E g \in GitCloneOrPullResults :
            IF g.err # "nil"
            THEN /\ err' = g.err
                 /\ url' = u.url
                 /\ gitOps' = g.ops
                 /\ UNCHANGED <<opts, subDirectory, listed, refs, fullPath, found, otherVars>>
            ELSE \E p \in ParseResults(rawurl, repoRefs) :
                 IF p.err # "nil"
                 THEN /\ err' = p.err
                      /\ url' = u.url
                      /\ gitOps' = g.ops
                      /\ listed' = p.listed
                      /\ refs' = p.refs
                      /\ UNCHANGED <<opts, subDirectory, fullPath, found, otherVars>>
                 ELSE \E worktreeErr \in WorktreeErrs :
                      IF worktreeErr # "nil"
                      THEN /\ err' = worktreeErr
                           /\ url' = u.url
                           /\ gitOps' = g.ops
                           /\ listed' = p.listed
                           /\ refs' = p.refs
                           /\ opts' = p.opts
                           /\ subDirectory' = p.subDirectory
                           /\ UNCHANGED <<fullPath, found, otherVars>>
                      ELSE \E checkoutErr \in CheckoutErrs, stat \in StatResults :
                           LET e == CheckoutAndStat(checkoutErr, stat) IN
                           /\ url' = u.url
                           /\ gitOps' = g.ops \o <<Checkout>>
                           /\ listed' = p.listed
                           /\ refs' = p.refs
                           /\ opts' = [p.opts EXCEPT !.Force = TRUE]
                           /\ subDirectory' = p.subDirectory
                           /\ err' = e
                           /\ found' = IF checkoutErr = "nil" THEN stat ELSE ""
                           /\ fullPath' = IF e = "nil" THEN FullPath(sDest, p.subDirectory)
                                          ELSE <<>>
    /\ pc' = "done"
    /\ UNCHANGED <<call, form, rawurl, repoRefs, answers, handle, stackVars, fileVars,
                   cmdVars, otherVars>>

\* s.MergeTags(tags) on the stack s: lines 72-86 of stack.go.
CallMergeTags ==
    /\ call = "MergeTags"
    /\ \E t \in TagMaps :
        /\ tags' = t
        /\ stackTags' = MergeTags(stackTags, t)
    /\ pc' = "done"
    /\ UNCHANGED <<call, err, gitVars, fileVars, cmdVars, otherVars>>

\* A direct call of template.CopyTemplateFilesDryRun(destDir).
CallCopyTemplateFilesDryRun ==
    /\ pc = "start"
    /\ call = "CopyTemplateFilesDryRun"
    /\ LET r == CopyTemplateFilesDryRun(sourceDir, destDir) IN
        /\ err' = r.err
        /\ existing' = r.existing
        /\ fsOps' = r.ops
        /\ destDir' = r.dest
    /\ pc' = "done"
    /\ UNCHANGED <<call, sourceDir, destBefore, gitVars, stackVars, cmdVars, otherVars>>

\* A direct call of chooseTemplate(offline, opts).
CallChooseTemplate ==
    /\ pc = "start"
    /\ call = "chooseTemplate"
    /\ \E listing \in (IF flags.offline THEN LocalListings ELSE RemoteListings) :
       \E asked \in AskOneAnswers(listing.templates) :
        LET r == chooseTemplate(flags.offline, interactive, listing, asked) IN
        /\ templateName' = r.name
        /\ err' = r.err
        /\ cmdOps' = r.ops
    /\ pc' = "done"
    /\ UNCHANGED <<call, flags, interactive, args, templateConfig, saved, gitVars,
                   stackVars, fileVars, otherVars>>

\* The new command: the Run function of newNewCmd, lines 123-372.
New ==
    /\ pc = "start"
    /\ call = "new"
    /\ \E r \in Run([flags |-> flags, args |-> args, interactive |-> interactive,
                      sourceDir |-> sourceDir, destDir |-> destDir,
                      templateConfig |-> templateConfig]) :
        /\ err' = r.err
        /\ cmdOps' = r.ops
        /\ templateName' = r.templateName
        /\ destDir' = r.dest
        /\ existing' = r.existing
        /\ fsOps' = r.fsOps
        /\ saved' = r.saved
    /\ pc' = "done"
    /\ UNCHANGED <<call, flags, interactive, args, templateConfig, sourceDir, destBefore,
                   gitVars, stackVars, otherVars>>

CallCopyTemplateFiles ==
    /\ pc = "start"
    /\ call = "CopyTemplateFiles"
    /\ LET r == CopyTemplateFiles(sourceDir, destDir, flags.force) IN
        /\ err' = r.err
        /\ existing' = r.existing
        /\ fsOps' = r.ops
        /\ destDir' = r.dest
    /\ pc' = "done"
    /\ UNCHANGED <<call, sourceDir, destBefore, gitVars, stackVars, cmdVars, otherVars>>

\* The steps of the callers change nothing but the path and the callers.
CallerFrame ==
    /\ call = "callers"
    /\ UNCHANGED <<call, pc, err, gitVars, stackVars, fileVars, cmdVars, opVars, regVars>>

\* The caller c goes on to at.
GoesTo(c, at) == callers' = [callers EXCEPT ![c].at = at]

\* The caller c returns.
Returns(c, took, ret, origin) ==
    callers' = [callers EXCEPT ![c].at = "returned", ![c].took = took, ![c].ret = ret,
                               ![c].origin = origin]

\* templates.go:63-72, cleanupLegacyTemplateDir: is there a repository?
StepCleanupOpen ==
    \E c \in Callers :
        /\ callers[c].at = "cleanup"
        /\ IF PlainOpenAt(cachePath) = "ErrRepositoryNotExists"
           THEN GoesTo(c, "remove") ELSE GoesTo(c, "mkdir")
        /\ UNCHANGED <<cachePath, clobbered>>
        /\ CallerFrame

\* templates.go:68: the directory and all its children are deleted.
StepRemoveAll ==
    \E c \in Callers :
        /\ callers[c].at = "remove"
        /\ cachePath' = RemoveAll(cachePath)
        /\ clobbered' = IF cachePath.git = "cloning" /\ cachePath.by # c
                        THEN clobbered \cup {cachePath.by} ELSE clobbered
        /\ GoesTo(c, "mkdir")
        /\ CallerFrame

\* templates.go:90: the directory is made.
StepMkdirAll ==
    \E c \in Callers :
        /\ callers[c].at = "mkdir"
        /\ cachePath' = MkdirAll(cachePath)
        /\ GoesTo(c, "clone")
        /\ UNCHANGED clobbered
        /\ CallerFrame

\* git.go:106-113: PlainClone makes the repository, or finds one.
StepPlainCloneInit ==
    \E c \in Callers :
        /\ callers[c].at = "clone"
        /\ LET r == PlainCloneInit(cachePath, callers[c].url, c) IN
            /\ cachePath' = r.path
            /\ IF r.err = "ErrRepositoryAlreadyExists"
               THEN GoesTo(c, "open") ELSE GoesTo(c, "fetch")
        /\ UNCHANGED clobbered
        /\ CallerFrame

\* git.go:110 and 136: PlainClone fetches and returns.
StepPlainCloneFetch ==
    \E c \in Callers :
        /\ callers[c].at = "fetch"
        /\ LET r == PlainCloneFetch(cachePath, c) IN
            /\ cachePath' = r.path
            /\ Returns(c, "clone", r.err, IF r.err = "nil" THEN r.path.origin ELSE "")
        /\ UNCHANGED clobbered
        /\ CallerFrame

\* git.go:114-117: the repository found is opened.
StepPlainOpen ==
    \E c \in Callers :
        /\ callers[c].at = "open"
        /\ IF PlainOpenAt(cachePath) = "nil"
           THEN GoesTo(c, "pull")
           ELSE Returns(c, "", PlainOpenAt(cachePath), "")
        /\ UNCHANGED <<cachePath, clobbered>>
        /\ CallerFrame

\* git.go:124-136: the pull, and the repository opened is returned.
StepPull ==
    \E c \in Callers, e \in PullAt(cachePath) :
        /\ callers[c].at = "pull"
        /\ IF PullFailed(e)
           THEN Returns(c, "pull", e, "")
           ELSE Returns(c, "pull", "nil", cachePath.origin)
        /\ UNCHANGED <<cachePath, clobbered>>
        /\ CallerFrame

\* The steps of the operations change nothing but the stack's lock and
\* persisted snapshot and the operations.
OperationFrame ==
    /\ call = "operations"
    /\ UNCHANGED <<call, pc, err, gitVars, stackVars, fileVars, cmdVars, cacheVars, regVars>>

\* The exclusive lock of the stack is taken, when free.
Acquire ==
    \E o \in Operations :
        /\ operations[o].at = "start"
        /\ lock = NoHolder
        /\ lock' = o
        /\ operations' = [operations EXCEPT ![o].at = "engine", ![o].before = persisted]
        /\ UNCHANGED persisted
        /\ OperationFrame

\* The deployment engine runs and ends.
RunEngine ==
    \E o \in Operations : \E result \in EngineResults(o) :
        /\ operations[o].at = "engine"
        /\ operations' = [operations EXCEPT ![o].at = "save", ![o].result = result]
        /\ UNCHANGED <<lock, persisted>>
        /\ OperationFrame

\* The snapshot that resulted is saved.
Persist ==
    \E o \in Operations, saveErr \in SaveErrs :
        /\ operations[o].at = "save"
        /\ IF SavedAfter(operations[o].result)
           THEN /\ persisted' = Save(persisted, operations[o].result.snapshot, saveErr)
                /\ operations' = [operations EXCEPT ![o].at = "release",
                                                    ![o].saveErr = saveErr]
           ELSE /\ saveErr = "nil"
                /\ persisted' = persisted
                /\ operations' = [operations EXCEPT ![o].at = "release"]
        /\ UNCHANGED lock
        /\ OperationFrame

\* stack.go:96-106: the operation returns what the backend returned, the
\* lock released.
Release ==
    \E o \in Operations :
        /\ operations[o].at = "release"
        /\ lock' = HolderAfter(o, operations[o].result.err # "nil")
        /\ operations' =
             [operations EXCEPT ![o].at = "returned",
                                ![o].ret = Returned(operations[o].result,
                                                    IF operations[o].saveErr = ""
                                                    THEN "nil" ELSE operations[o].saveErr)]
        /\ UNCHANGED persisted
        /\ OperationFrame

\* A step of an operation against the stack.
OperationStep == Acquire \/ RunEngine \/ Persist \/ Release

\* The steps of the calls change nothing but the snapshot and the calls.
RegistrationFrame ==
    /\ call = "registrations"
    /\ UNCHANGED <<call, pc, err, gitVars, stackVars, fileVars, cmdVars, cacheVars, opVars>>

\* The URN of a registration is assigned, and the resource is provided.
AssignURN ==
    \E r \in Registrations :
        /\ registrations[r].at = "start"
        /\ registrations' =
             [registrations EXCEPT ![r].at = "accumulate",
                                   ![r].urn = URN(registrations[r].req.parent,
                                                  registrations[r].req.type,
                                                  registrations[r].req.name)]
        /\ UNCHANGED snapshot
        /\ RegistrationFrame

\* The registration is accumulated into the snapshot, one registration at
\* a time, and RegisterResourceResponse is returned.
Accumulate ==
    \E r \in Registrations :
        /\ registrations[r].at = "accumulate"
        /\ snapshot' = Accumulated(snapshot,
                                   ResourceState(registrations[r].urn, registrations[r].req))
        /\ registrations' = [registrations EXCEPT ![r].at = "responded"]
        /\ RegistrationFrame

Next ==
    \/ CallParseGitRepoURL
    \/ CallParseGitCheckoutOptionsSubDirectory
    \/ RetrieveTemplate
    \/ CallGitCloneOrPull
    \/ CallMergeTags
    \/ CallCopyTemplateFilesDryRun
    \/ CallCopyTemplateFiles
    \/ CallChooseTemplate
    \/ New
    \/ StepCleanupOpen
    \/ StepRemoveAll
    \/ StepMkdirAll
    \/ StepPlainCloneInit
    \/ StepPlainCloneFetch
    \/ StepPlainOpen
    \/ StepPull
    \/ Acquire
    \/ RunEngine
    \/ Persist
    \/ Release
    \/ AssignURN
    \/ Accumulate

Spec == Init /\ [][Next]_vars

(***************************************************************************)
(* Vocabulary of the properties.                                           *)
(***************************************************************************)
\* ParseGitCheckoutOptionsSubDirectory was called on a URL (it has a scheme,
\* so url.Parse accepts it) with owner and repo, and has returned.
Resolved ==
    /\ pc = "done"
    /\ call = "ParseGitCheckoutOptionsSubDirectory"
    /\ form.scheme # <<>>
    /\ form.depth = 2

\* The name a reference is matched by: its short name with a leading
\* "origin/" removed.
MatchedName(ref) == shortNameWithoutOrigin(ref)

\* The repository has a reference matched by name.
Knows(name) == \E r \in repoRefs : MatchedName(r) = name

\* The ref-path: what follows tree in the URL.
RefPath == Join(form.segs)

\* name is a "/"-delimited prefix of the ref-path.
DelimitedPrefix(name) == HasPrefix(RefPath \o sSlash, name \o sSlash)

IsCommitId(seg) == Len(seg) = 40 /\ \A i \in 1..Len(seg) : seg[i] \in HexChars

HasTraversal == \E i \in 1..Len(form.segs) : form.segs[i] \in {sDot, sDotDot}

\* A tree URL whose first segment after tree is not a commit id.
TreeWithRefPath ==
    /\ form.tree
    /\ Len(form.segs) >= 1
    /\ ~IsCommitId(form.segs[1])

\* Hash.String(): the lower-case hexadecimal digits of a hash.
HashString(h) == [i \in 1..HashHexLen |-> LowerHex[h[i] + 1]]

\* The spellings of the https scheme.
SecureSchemes == {sHTTPS, sHTTPSUpper}

sMyContent == sMy \o sSlash \o sContent
sMyContentFoo == sMyContent \o sSlash \o sFoo

(***************************************************************************)
(* C1.  Original statement: for every reference list that contains both    *)
(* "my" and "my/content", whatever else it contains, the URL path          *)
(* tree/my/content/foo resolves to a branch target matched by "my/content" *)
(* and the subdirectory "foo".                                             *)
(***************************************************************************)
C1_Original ==
    (Resolved /\ form.tree /\ form.segs = <<sMy, sContent, sFoo>>
        /\ Knows(sMy) /\ Knows(sMyContent))
    => /\ err = "nil"
       /\ ~opts.nil
       /\ MatchedName(opts.Branch) = sMyContent
       /\ subDirectory = sFoo

(***************************************************************************)
(* C1, amended: for every reference list that contains both "my" and       *)
(* "my/content" and no reference matched by "my/content/foo", the URL path *)
(* tree/my/content/foo resolves to a branch target matched by "my/content" *)
(* and the subdirectory "foo".                                             *)
(***************************************************************************)
C1_LongestOfMyAndMyContent ==
    (Resolved /\ form.tree /\ form.segs = <<sMy, sContent, sFoo>>
        /\ Knows(sMy) /\ Knows(sMyContent) /\ ~Knows(sMyContentFoo))
    => /\ err = "nil"
       /\ ~opts.nil
       /\ MatchedName(opts.Branch) = sMyContent
       /\ HashIsZero(opts.Hash)
       /\ subDirectory = sFoo

\* my as a remote-tracking reference, my/content as a branch, one more
\* reference, and the URL with a trailing slash.
C1_Witness ==
    /\ Resolved /\ form.tree /\ form.segs = <<sMy, sContent, sFoo>> /\ form.slash
    /\ Ref(sRefsRemotes, sOriginSlash \o sMy) \in repoRefs
    /\ Ref(sRefsHeads, sMyContent) \in repoRefs
    /\ Cardinality(repoRefs) >= 3
    /\ ~Knows(sMyContentFoo)
    /\ opts.Branch = Ref(sRefsHeads, sMyContent)
    /\ subDirectory = sFoo

(***************************************************************************)
(* C2.  When the segment after tree is not a commit id, the reference      *)
(* returned is a longest match: no known reference whose matched name is a *)
(* "/"-delimited prefix of the ref-path has a strictly longer matched name *)
(* than the reference returned.                                            *)
(***************************************************************************)
C2_LongestMatchWins ==
    (Resolved /\ TreeWithRefPath /\ err = "nil")
    => \A r \in repoRefs :
          DelimitedPrefix(MatchedName(r))
          => Len(MatchedName(r)) <= Len(MatchedName(opts.Branch))

(***************************************************************************)
(* C3.  Original statement: a commit id as the first segment after tree    *)
(* always gives a hash target for it, the remaining segments joined by "/" *)
(* as the subdirectory, and the reference list is not consulted.           *)
(***************************************************************************)
C3_Original ==
    (Resolved /\ form.tree /\ Len(form.segs) >= 1 /\ IsCommitId(form.segs[1]))
    => /\ err = "nil"
       /\ ~opts.nil
       /\ opts.Branch = <<>>
       /\ HashString(opts.Hash) = ToLower(form.segs[1])
       /\ subDirectory = Join(Tail(form.segs))
       /\ ~listed

(***************************************************************************)
(* C3, amended: a commit id as the first segment after tree, in a URL none *)
(* of whose segments is "." or "..", gives a hash target for it, the       *)
(* remaining segments joined by "/" as the subdirectory, and the reference *)
(* list is not consulted, even when a reference has that literal name.     *)
(***************************************************************************)
C3_CommitIdIsHashTarget ==
    (Resolved /\ form.tree /\ Len(form.segs) >= 1 /\ IsCommitId(form.segs[1])
        /\ ~HasTraversal)
    => /\ err = "nil"
       /\ ~opts.nil
       /\ opts.Branch = <<>>
       /\ HashString(opts.Hash) = ToLower(form.segs[1])
       /\ subDirectory = Join(Tail(form.segs))
       /\ ~listed
       /\ refs = <<>>

\* The repository has a branch named like the commit id of the URL.
C3_Witness ==
    /\ Resolved /\ form.tree /\ Len(form.segs) = 3 /\ form.segs[1] = sSHA
    /\ Ref(sRefsHeads, sSHA) \in repoRefs
    /\ HashString(opts.Hash) = sSHA
    /\ opts.Branch = <<>>
    /\ subDirectory = sContent \o sSlash \o sFoo

(***************************************************************************)
(* C4.  A URL with a segment "." or ".." anywhere after owner/repo (with   *)
(* or without tree, with or without a trailing slash, also after a commit  *)
(* id or a ref) gives an error and no checkout target.                     *)
(***************************************************************************)
C4_TraversalRejected ==
    (Resolved /\ HasTraversal)
    => /\ err # "nil"
       /\ opts.nil
       /\ subDirectory = <<>>

\* ".." after a commit id, with a trailing slash.
C4_Witness ==
    /\ Resolved /\ form.tree /\ form.slash
    /\ Len(form.segs) = 2 /\ form.segs[1] = sSHA /\ form.segs[2] = sDotDot
    /\ err = "invalid Git URL"

(***************************************************************************)
(* C5.  Every target returned without error has exactly one of a non-empty *)
(* Branch and a non-zero Hash.                                             *)
(***************************************************************************)
C5_BranchXorHash ==
    (pc = "done" /\ call = "ParseGitCheckoutOptionsSubDirectory" /\ err = "nil")
    => /\ ~opts.nil
       /\ (opts.Branch # <<>>) # (~HashIsZero(opts.Hash))

(***************************************************************************)
(* C6.  ParseGitRepoURL maps every https URL host/owner/repo, with or      *)
(* without ".git", a trailing slash or any further path, to                *)
(* https://host/owner/repo.git.                                            *)
(***************************************************************************)
C6_CanonicalCloneURL ==
    (pc = "done" /\ call = "ParseGitRepoURL" /\ form.scheme \in SecureSchemes
        /\ form.depth = 2)
    => /\ err = "nil"
       /\ url = sHTTPS \o sSchemeSep \o form.host \o sSlash \o form.owner \o sSlash
                  \o form.repo \o sDotGit

\* A URL with ".git", tree, a commit id and a subdirectory.
C6_Witness ==
    /\ pc = "done" /\ call = "ParseGitRepoURL" /\ form.scheme = sHTTPSUpper
    /\ form.git /\ form.tree /\ form.segs = <<sSHA, sContent>>
    /\ form.host = sHost2 /\ form.owner = sOwner2 /\ form.repo = sRepo2
    /\ url = sHTTPS \o sSchemeSep \o sHost2 \o sSlash \o sOwner2 \o sSlash \o sRepo2 \o sDotGit

(***************************************************************************)
(* C7.  ParseGitRepoURL gives an error and no URL for every URL whose      *)
(* scheme is not https, and RetrieveTemplate returns that error having     *)
(* attempted no clone, pull or checkout.                                   *)
(***************************************************************************)
C7_InsecureSchemeRejected ==
    (pc = "done" /\ call \in {"ParseGitRepoURL", "RetrieveTemplate"}
        /\ form.scheme \notin SecureSchemes)
    => /\ err \in {"invalid URL scheme", "missing protocol scheme"}
       /\ url = <<>>
       /\ gitOps = <<>>
       /\ fullPath = <<>>

C7_Witness ==
    /\ pc = "done" /\ call = "RetrieveTemplate" /\ form.scheme = sHTTP
    /\ form.depth = 2 /\ form.segs = <<sFoo>>
    /\ err = "invalid URL scheme"
    /\ gitOps = <<>>

(***************************************************************************)
(* C8.  When nothing follows owner/repo, or the first segment is not tree  *)
(* (and no segment is "." or ".."), the target is the branch master and    *)
(* the subdirectory the remaining segments joined by "/", whatever the     *)
(* references are, which are not consulted.                                *)
(***************************************************************************)
C8_NoTreeIsMaster ==
    (Resolved /\ ~form.tree /\ ~HasTraversal)
    => /\ err = "nil"
       /\ ~opts.nil
       /\ opts.Branch = Master
       /\ HashIsZero(opts.Hash)
       /\ subDirectory = Join(form.segs)
       /\ ~listed

\* A commit id that does not follow tree is a directory name.
C8_Witness ==
    /\ Resolved /\ ~form.tree /\ form.slash
    /\ form.segs = <<sContent, sSHA, sFoo>>
    /\ opts.Branch = Master
    /\ subDirectory = sContent \o sSlash \o sSHA \o sSlash \o sFoo

(***************************************************************************)
(* C9.  A URL whose path after owner/repo is tree alone, with or without a *)
(* trailing slash, gives an error, for every reference list.               *)
(***************************************************************************)
C9_TreeWithoutRef ==
    (Resolved /\ form.tree /\ form.segs = <<>>)
    => /\ err # "nil"
       /\ opts.nil
       /\ subDirectory = <<>>

C9_Witness ==
    /\ Resolved /\ form.tree /\ form.segs = <<>> /\ form.slash
    /\ Cardinality(repoRefs) = 3
    /\ err = "invalid Git URL"

(***************************************************************************)
(* C10.  References are matched verbatim: a ref-path that is not a commit  *)
(* id gives an error whenever no known reference name is a "/"-delimited   *)
(* prefix of it, so also when it differs from the known names only in      *)
(* letter case (My against my).                                            *)
(***************************************************************************)
C10_NoMatchIsError ==
    (Resolved /\ TreeWithRefPath
        /\ \A r \in repoRefs : ~DelimitedPrefix(MatchedName(r)))
    => /\ err # "nil"
       /\ opts.nil
       /\ subDirectory = <<>>

\* tree/My/content against a repository that has my and my/content.
C10_Witness ==
    /\ Resolved /\ form.tree /\ form.segs = <<sMyUpper, sContent>>
    /\ Knows(sMy) /\ Knows(sMyContent)
    /\ listed
    /\ Len(refs) = Cardinality(repoRefs)
    /\ err = "invalid Git URL"

(***************************************************************************)
(* C11.  For every URL ParseGitCheckoutOptionsSubDirectory accepts, the    *)
(* URL with one more "/" at its end is accepted too and gives the same     *)
(* branch or hash and the same subdirectory (the repository enumerating    *)
(* its references in the same order), and neither subdirectory begins or   *)
(* ends with "/".                                                          *)
(***************************************************************************)
\* The enumerations of the repository that agree with the call that returned.
SameEnumerations ==
    { e \in Enumerations(repoRefs) :
        listed => listGitReferencesByShortNameLength(e) = refs }

BeginsOrEndsWithSlash(dir) == HasPrefix(dir, sSlash) \/ HasSuffix(dir, sSlash)

C11_TrailingSlashSameResult ==
    (Resolved /\ err = "nil")
    => /\ ~BeginsOrEndsWithSlash(subDirectory)
       /\ \A e \in SameEnumerations :
            LET r == ParseGitCheckoutOptionsSubDirectory(rawurl \o sSlash, e) IN
            /\ r.err = "nil"
            /\ r.opts = opts
            /\ r.subDirectory = subDirectory
            /\ ~BeginsOrEndsWithSlash(r.subDirectory)

(***************************************************************************)
(* C12.  For a fixed URL and a fixed set of references, whatever order the *)
(* repository enumerates its references in,                                *)
(* ParseGitCheckoutOptionsSubDirectory returns the same outcome: the same  *)
(* error or else the same matched reference name and the same              *)
(* subdirectory; also when two references with short names of equal        *)
(* length, origin/my and my/conten, both match.                            *)
(***************************************************************************)
C12_EnumerationOrderIrrelevant ==
    Resolved
    => \A e \in Enumerations(repoRefs) :
         LET r == ParseGitCheckoutOptionsSubDirectory(rawurl, e) IN
         /\ r.err = err
         /\ r.opts.nil = opts.nil
         /\ MatchedName(r.opts.Branch) = MatchedName(opts.Branch)
         /\ r.subDirectory = subDirectory

(***************************************************************************)
(* C13.  GitCloneOrPull first attempts a depth-1 clone.  It opens the      *)
(* repository at path exactly when the clone fails with "repository        *)
(* already exists", and then, the repository and its worktree opened,      *)
(* performs a forced depth-1 pull; a pull answering nil or "already up to  *)
(* date" gives the repository and no error.  Every other error of clone,   *)
(* open, worktree or pull is returned as it is, with a nil repository.     *)
(***************************************************************************)
Cloned == pc = "done" /\ call = "GitCloneOrPull"

Attempted(name) == \E i \in 1..Len(gitOps) : gitOps[i].op = name

\* The error go-git gave that ends the call, "nil" when none does.
FatalAnswer ==
    IF answers.clone = "nil" THEN "nil"
    ELSE IF answers.clone # "ErrRepositoryAlreadyExists" THEN answers.clone
    ELSE IF answers.open # "nil" THEN answers.open
    ELSE IF answers.worktree # "nil" THEN answers.worktree
    ELSE IF answers.pull \in {"nil", "NoErrAlreadyUpToDate"} THEN "nil"
    ELSE answers.pull

C13_CloneElseForcedPull ==
    Cloned
    => /\ gitOps[1] = [op |-> "clone", Depth |-> 1, Force |-> FALSE]
       /\ Attempted("open") <=> answers.clone = "ErrRepositoryAlreadyExists"
       /\ Attempted("pull") <=>
            /\ answers.clone = "ErrRepositoryAlreadyExists"
            /\ answers.open = "nil"
            /\ answers.worktree = "nil"
       /\ Attempted("pull")
            => gitOps = << [op |-> "clone", Depth |-> 1, Force |-> FALSE],
                           [op |-> "open", Depth |-> 0, Force |-> FALSE],
                           [op |-> "pull", Depth |-> 1, Force |-> TRUE] >>
       /\ err = FatalAnswer
       /\ handle <=> err = "nil"

\* The repository exists already and the pull finds it up to date.
C13_Witness ==
    /\ Cloned
    /\ answers = Answers("ErrRepositoryAlreadyExists", "nil", "nil", "NoErrAlreadyUpToDate")
    /\ Len(gitOps) = 3
    /\ handle
    /\ err = "nil"

(***************************************************************************)
(* C14.  For every raw URL that is malformed (no scheme, or no owner and   *)
(* repo), has a "." or ".." segment, has tree with no ref after it, or has *)
(* a scheme other than https, RetrieveTemplate returns an error and has    *)
(* attempted no clone, open, pull or checkout at the destination path.     *)
(***************************************************************************)
Retrieved == pc = "done" /\ call = "RetrieveTemplate"

MalformedURL == form.scheme = <<>> \/ form.depth < 2

TreeWithoutRef == form.tree /\ form.segs = <<>>

InvalidInput ==
    \/ MalformedURL
    \/ form.scheme \notin SecureSchemes
    \/ HasTraversal
    \/ TreeWithoutRef

C14_InvalidInputBeforeGit ==
    (Retrieved /\ InvalidInput)
    => /\ err # "nil"
       /\ fullPath = <<>>
       /\ gitOps = <<>>

(***************************************************************************)
(* C15.  RetrieveTemplate returns without error only after a forced        *)
(* checkout and only when the destination joined with the resolved         *)
(* subdirectory exists and is a directory, and then returns that path.     *)
(* When the path does not exist it returns the error of os.Stat, which     *)
(* os.IsNotExist recognises; when the path exists and is not a directory   *)
(* it returns an error that os.IsNotExist does not recognise.              *)
(***************************************************************************)
\* os.IsNotExist(e), as table.ts:236 and 272 (the new command) ask it.
IsNotExist(e) == e = "ErrNotExist"

LastOp == gitOps[Len(gitOps)]

C15_PathIsExistingDirectory ==
    Retrieved
    => /\ err = "nil"
            => /\ found = "dir"
               /\ LastOp = [op |-> "checkout", Depth |-> 0, Force |-> TRUE]
               /\ opts.Force
               /\ fullPath = FullPath(sDest, subDirectory)
       /\ found = "ErrNotExist" => (IsNotExist(err) /\ fullPath = <<>>)
       /\ found = "file" => (err # "nil" /\ ~IsNotExist(err) /\ fullPath = <<>>)

\* tree/my/foo is checked out at the tag my and has no directory foo.
C15_Witness ==
    /\ Retrieved
    /\ form.tree /\ form.segs = <<sMy, sFoo>>
    /\ opts.Branch = Ref(sRefsTags, sMy)
    /\ LastOp.op = "checkout"
    /\ found = "ErrNotExist"
    /\ IsNotExist(err)

(***************************************************************************)
(* C16.  In every call s.MergeTags(t), whatever calls came before it:      *)
(* afterwards every key of t has t's value in the stack's tags, every key  *)
(* the stack's tags had that is not in t has the value it had, and no key  *)
(* the stack's tags had is gone.                                           *)
(***************************************************************************)
MergeTagsStep == call = "MergeTags" /\ pc' = "done"

C16_MergeTagsNonDestructive ==
    [][MergeTagsStep
        => /\ \A k \in DOMAIN tags'.m :
                k \in DOMAIN stackTags'.m /\ stackTags'.m[k] = tags'.m[k]
           /\ \A k \in DOMAIN stackTags.m :
                /\ k \in DOMAIN stackTags'.m
                /\ k \notin DOMAIN tags'.m => stackTags'.m[k] = stackTags.m[k]
           /\ DOMAIN stackTags'.m = DOMAIN stackTags.m \cup DOMAIN tags'.m]_vars

\* The latest call overwrote pulumi:runtime and added gitHub:repo, and
\* pulumi:project is there from before with a value the call did not give.
C16_Witness ==
    /\ call = "MergeTags" /\ pc = "done"
    /\ DOMAIN tags.m = {"pulumi:runtime", "gitHub:repo"}
    /\ DOMAIN stackTags.m = TagNames
    /\ stackTags.m["pulumi:runtime"] = tags.m["pulumi:runtime"]
    /\ stackTags.m["pulumi:project"] # tags.m["pulumi:runtime"]

(***************************************************************************)
(* C18.  CopyTemplateFilesDryRun, for a template whose source directory is *)
(* there, returns the existing-files error exactly when some entry of the  *)
(* template tree, other than a file named as the legacy manifest, has a    *)
(* destination path that exists and is not a directory; the error lists    *)
(* the name of every such entry and no other; and the dry run leaves the   *)
(* destination as it was, having done nothing there but os.Stat.           *)
(***************************************************************************)
DryRan == pc = "done" /\ call = "CopyTemplateFilesDryRun"

\* The entries of the template tree the copy is about.
TemplateEntries ==
    { q \in DOMAIN sourceDir.tree :
        ~(sourceDir.tree[q] = "file" /\ Base(q) = ".pulumi.template.yaml") }

\* Those whose destination path exists as a non-directory.
Conflicting == {q \in TemplateEntries : q \in DOMAIN destBefore /\ destBefore[q] # "dir"}

C18_DryRunConflicts ==
    (DryRan /\ sourceDir.isThere)
    => /\ err = "existing files" <=> Conflicting # {}
       /\ err \in {"existing files", "nil"}
       /\ {existing[j] : j \in 1..Len(existing)} = {Base(q) : q \in Conflicting}
       /\ Len(existing) = Cardinality(Conflicting)
       /\ destDir = destBefore
       /\ \A j \in 1..Len(fsOps) : fsOps[j].op = "Stat"

\* The destination has index.ts and a file src where the template has a
\* directory, and a directory where the template has the legacy manifest.
C18_Witness ==
    /\ DryRan /\ sourceDir.isThere
    /\ Conflicting = {<<"index.ts">>, <<"src">>}
    /\ <<"src", "index.ts">> \in TemplateEntries
    /\ <<".pulumi.template.yaml">> \in DOMAIN sourceDir.tree \ TemplateEntries
    /\ <<".pulumi.template.yaml">> \in DOMAIN destBefore
    /\ err = "existing files"
    /\ existing = <<"index.ts", "src">>

(***************************************************************************)
(* C19.  When chooseTemplate runs at a terminal with offline = true and    *)
(* ListLocalTemplates answers no template and no error, it returns an      *)
(* error, the "no template selected" one, and never an empty template name *)
(* with no error.                                                          *)
(***************************************************************************)
Chose == pc = "done" /\ call = "chooseTemplate"

\* ListLocalTemplates was asked and answered without error.
ListedLocally ==
    /\ Len(cmdOps) >= 1
    /\ cmdOps[1] = [op |-> "ListLocalTemplates", err |-> "nil"]

\* survey.AskOne was called: there was a template to choose.
AskedOne == \E j \in 1..Len(cmdOps) : cmdOps[j].op = "AskOne"

C19_NoLocalTemplateIsError ==
    (Chose /\ flags.offline /\ interactive /\ ListedLocally /\ ~AskedOne)
    => /\ err # "nil"
       /\ templateName = <<>>

(***************************************************************************)
(* C17.  When the new command runs without force, CopyTemplateFiles is     *)
(* called only after CopyTemplateFilesDryRun was called, on the same       *)
(* destination directory, and returned no error; and when the dry run      *)
(* returns an error the command returns an error with the dry run its last *)
(* call, the destination directory as it was before the command, and no    *)
(* os.Mkdir or os.OpenFile done under it.                                  *)
(***************************************************************************)
NewRan == pc = "done" /\ call = "new"

DryRunFailed ==
    \E j \in 1..Len(cmdOps) :
        cmdOps[j].op = "CopyTemplateFilesDryRun" /\ cmdOps[j].err # "nil"

C17_DryRunBeforeCopy ==
    (NewRan /\ ~flags.force)
    => /\ \A i \in 1..Len(cmdOps) :
            cmdOps[i].op = "CopyTemplateFiles"
            => \E j \in 1..(i - 1) :
                 cmdOps[j] = [op |-> "CopyTemplateFilesDryRun", err |-> "nil"]
       /\ DryRunFailed
            => /\ err # "nil"
               /\ cmdOps[Len(cmdOps)].op = "CopyTemplateFilesDryRun"
               /\ destDir = destBefore
               /\ \A j \in 1..Len(fsOps) : fsOps[j].op = "Stat"

\* The destination holds index.ts, the template has one, and the dry run
\* says so.
C17_Witness ==
    /\ NewRan /\ ~flags.force /\ flags.dir
    /\ DryRunFailed
    /\ err = "existing files"
    /\ existing = <<"index.ts">>
    /\ destDir = destBefore
    /\ Len(fsOps) > 0

(***************************************************************************)
(* C20.  When the new command has saved the config it asked for, every key *)
(* whose entry in template.Config has Secret = true is in the saved config *)
(* with a value tagged as secret.                                          *)
(***************************************************************************)
ConfigSaved ==
    \E j \in 1..Len(cmdOps) : cmdOps[j] = [op |-> "saveConfig", err |-> "nil"]

C20_SecretConfigSavedAsSecret ==
    (NewRan /\ ConfigSaved)
    => \A k \in DOMAIN templateConfig.m :
         templateConfig.m[k].Secret
         => /\ k \in DOMAIN saved.m
            /\ saved.m[k].secure

(***************************************************************************)
(* C27.  Whenever ParseGitCheckoutOptionsSubDirectory returns a target for *)
(* a tree URL, the target and the subdirectory put together give back the  *)
(* ref-path after tree: for a branch target the matched reference name,    *)
(* "/" and the subdirectory (the "/" left out when the subdirectory is     *)
(* empty), for a hash target the hash segment, "/" and the subdirectory.   *)
(* The URL is the one resolved, or that URL with one more "/" at its end,  *)
(* whose ref-path is the same.                                             *)
(***************************************************************************)
\* What a target and a subdirectory stand for: a reference name or a hash
\* segment, followed by the subdirectory.
PutTogether(o, sub) ==
    LET head == IF o.Branch # <<>> THEN MatchedName(o.Branch) ELSE form.segs[1]
    IN IF sub = <<>> THEN head ELSE head \o sSlash \o sub

C27_RefPathReconstructed ==
    (Resolved /\ form.tree /\ err = "nil")
    => /\ PutTogether(opts, subDirectory) = RefPath
       /\ \A e \in SameEnumerations :
            LET r == ParseGitCheckoutOptionsSubDirectory(rawurl \o sSlash, e) IN
            r.err = "nil" => PutTogether(r.opts, r.subDirectory) = RefPath

\* The same for the URL resolved alone, which ends with at most one "/".
C27_AtMostOneSlash ==
    (Resolved /\ form.tree /\ err = "nil")
    => PutTogether(opts, subDirectory) = RefPath

(***************************************************************************)
(* C25.  When the new command is given a template URL, the string it       *)
(* passes to RetrieveTemplate is the argument character for character, so  *)
(* that ParseGitCheckoutOptionsSubDirectory resolves it as it resolves the *)
(* argument: tree/HEAD is matched against the reference HEAD.              *)
(***************************************************************************)
RetrieveTemplateCalled ==
    \E j \in 1..Len(cmdOps) : cmdOps[j].op = "RetrieveTemplate"

C25_URLReachesResolverUnchanged ==
    (NewRan /\ RetrieveTemplateCalled)
    => /\ templateName = args[1]
       /\ \A e \in Enumerations(TestRepoRefs) :
            ParseGitCheckoutOptionsSubDirectory(templateName, e)
                = ParseGitCheckoutOptionsSubDirectory(args[1], e)

\* The same for an argument without upper-case letters.
C25_LowerCaseArgument ==
    (NewRan /\ RetrieveTemplateCalled /\ args[1] = ToLower(args[1]))
    => templateName = args[1]

(***************************************************************************)
(* C26.  CopyTemplateFiles called without force, on a destination as it is *)
(* found at the time of the call (a file may have appeared since the dry   *)
(* run), leaves every file and directory of the destination as it was,     *)
(* opens files only with O_EXCL, and when it opens a path where a file     *)
(* exists it stops there with the existing-files error naming that file.   *)
(* Called with force, it opens files only with O_TRUNC, and a file that    *)
(* exists where it writes is replaced by the template's.                   *)
(***************************************************************************)
Copied == pc = "done" /\ call = "CopyTemplateFiles"

\* The j-th operation opens a file for writing.
Opens(j) == fsOps[j].op \in {"OpenFile O_TRUNC", "OpenFile O_EXCL"}

\* The j-th operation opens a path at which the destination had a file.
OpensExistingFile(j) ==
    /\ Opens(j)
    /\ fsOps[j].path \in DOMAIN destBefore
    /\ destBefore[fsOps[j].path] = "file"

C26_NoOverwriteWithoutForce ==
    /\ (Copied /\ ~flags.force)
       => /\ \A q \in DOMAIN destBefore : q \in DOMAIN destDir /\ destDir[q] = destBefore[q]
          /\ \A j \in 1..Len(fsOps) : Opens(j) => fsOps[j].op = "OpenFile O_EXCL"
          /\ \A j \in 1..Len(fsOps) :
                OpensExistingFile(j)
                => /\ j = Len(fsOps)
                   /\ err = "existing files"
                   /\ existing = <<Base(fsOps[j].path)>>
    /\ (Copied /\ flags.force)
       => /\ \A j \in 1..Len(fsOps) : Opens(j) => fsOps[j].op = "OpenFile O_TRUNC"
          /\ \A j \in 1..Len(fsOps) :
                OpensExistingFile(j) => destDir[fsOps[j].path] = "written"

\* Without force, index.ts having appeared in a destination the template's
\* directory src can still be made in: the copy stops at index.ts.
C26_Witness ==
    /\ Copied /\ ~flags.force
    /\ <<"src">> \in TemplateEntries
    /\ DOMAIN destBefore = {<<"index.ts">>}
    /\ destBefore[<<"index.ts">>] = "file"
    /\ fsOps = <<FsOp("OpenFile O_EXCL", <<"index.ts">>)>>
    /\ destDir = destBefore
    /\ err = "existing files"
    /\ existing = <<"index.ts">>

(***************************************************************************)
(* C28.  Whenever a call of GitCloneOrPull(url, path) returns a            *)
(* repository and no error, after whatever calls came before at the same   *)
(* path, the repository returned has url as the URL of its remote origin:  *)
(* it is a clone of url, or was pulled from url.                           *)
(***************************************************************************)
ReturnedRepository(c) == callers[c].at = "returned" /\ callers[c].ret = "nil"

C28_ReturnedRepositoryIsOfURL ==
    \A c \in Callers : ReturnedRepository(c) => callers[c].origin = callers[c].url

\* The same when every call at the path, those before included, is given
\* the same url.
C28_SameURL ==
    (/\ \A c \in Callers : callers[c].url = pulumiTemplateGitRepository
     /\ cachePath.origin \in {"", pulumiTemplateGitRepository})
    => C28_ReturnedRepositoryIsOfURL

(***************************************************************************)
(* C21.  When two callers run CloneOrUpdatePulumiTemplates at the same     *)
(* cache directory, in every interleaving: at most one of them is between  *)
(* its first operation at the directory and its return; no caller deletes  *)
(* the directory another is cloning into; and when both have returned,     *)
(* both returned no error, at most one of them cloned and the other opened *)
(* the repository found and pulled.                                        *)
(***************************************************************************)
BothUpdateTemplates ==
    \A c \in Callers : callers[c].fn = "CloneOrUpdatePulumiTemplates"

\* c has looked at the directory and has not returned yet.
Under(c) == callers[c].at \notin {"rest", "cleanup", "returned"}

Serialized == \A c, d \in Callers : (Under(c) /\ Under(d)) => c = d

SecondCallerPulls ==
    (\A c \in Callers : callers[c].at = "returned")
    => /\ \A c \in Callers : callers[c].ret = "nil"
       /\ \A c, d \in Callers : (callers[c].took = "clone" /\ c # d) => callers[d].took = "pull"

C21_ConcurrentFetchesSerialized ==
    BothUpdateTemplates => (Serialized /\ clobbered = {} /\ SecondCallerPulls)

(***************************************************************************)
(* The operations against one stack alone, each of them going on until it  *)
(* has returned.                                                           *)
(***************************************************************************)
StackSpec == InitOperations /\ [][OperationStep]_vars /\ WF_vars(OperationStep)

(***************************************************************************)
(* C22.  At most one Update, Destroy or Refresh is in flight against the   *)
(* stack at any time: an operation is in flight exactly while it holds the *)
(* exclusive lock, the persisted snapshot changes only in a step of the    *)
(* operation holding the lock, an operation that has returned, with an     *)
(* error or without, does not hold the lock, and every operation started   *)
(* returns in the end, whatever became of the one before it.               *)
(***************************************************************************)
InFlight(o) == operations[o].at \in {"engine", "save", "release"}

OneInFlight ==
    /\ \A o, q \in Operations : (InFlight(o) /\ InFlight(q)) => o = q
    /\ \A o \in Operations : InFlight(o) <=> lock = o

MutatedUnderLock ==
    persisted' # persisted => (lock # NoHolder /\ operations[lock].at = "save")

C22_OneOperationInFlight ==
    /\ []OneInFlight
    /\ [][MutatedUnderLock]_vars
    /\ \A o \in Operations :
         (operations[o].at = "start") ~> (operations[o].at = "returned")

\* The first operation failed and returned; the second, which waited for
\* the lock meanwhile, holds it now.
C22_Witness ==
    /\ operations["op1"].at = "returned"
    /\ operations["op1"].ret = "engine failed"
    /\ operations["op2"].at = "engine"
    /\ operations["op2"].before = operations["op1"].result.snapshot
    /\ lock = "op2"

(***************************************************************************)
(* C24.  An Update whose engine run fails returns the engine's error as it *)
(* is and leaves the persisted snapshot as it was before the Update, or    *)
(* replaced by the partial snapshot the engine produced, and nothing else: *)
(* a partial snapshot is always saved, and is the persisted one unless the *)
(* save itself failed; with no partial snapshot nothing is saved.          *)
(***************************************************************************)
\* The Update o failed and has saved what it had to, the lock still held.
FailedUpdate(o) ==
    /\ operations[o].kind = "Update"
    /\ operations[o].at \in {"release", "returned"}
    /\ operations[o].result.err # "nil"

C24_FailedUpdatePersistsPartial ==
    \A o \in Operations :
        FailedUpdate(o)
        => LET op == operations[o] IN
           /\ op.at = "returned" => op.ret = op.result.err
           /\ op.at = "release"
              => /\ persisted \in {op.before, op.result.snapshot}
                 /\ persisted # op.before => op.result.snapshot.partial
                 /\ IF op.result.snapshot = NoSnapshot
                    THEN op.saveErr = "" /\ persisted = op.before
                    ELSE /\ op.saveErr \in SaveErrs
                         /\ op.saveErr = "nil" => persisted = op.result.snapshot
                         /\ op.saveErr # "nil" => persisted = op.before

\* An Update failed with a partial snapshot, which is now the persisted one.
C24_Witness ==
    /\ FailedUpdate("op1")
    /\ operations["op1"].at = "returned"
    /\ operations["op1"].ret = "engine failed"
    /\ operations["op1"].before = FirstSnapshot
    /\ operations["op2"].at = "start"
    /\ persisted = Snapshot("op1", TRUE)
    /\ lock = NoHolder

(***************************************************************************)
(* C23.  Within one accumulation session, in every order of the steps of   *)
(* the calls: two calls of RegisterResource with the same parent, type,    *)
(* name and custom are assigned the same URN, the snapshot never has two   *)
(* entries of one URN, and once both calls have been answered the snapshot *)
(* has exactly one entry of their URN.                                     *)
(***************************************************************************)
EntriesOf(urn) == {i \in 1..Len(snapshot) : snapshot[i].urn = urn}

====
